---- MODULE Spec2Model ----
(***************************************************************************)
(* Semantic analysis core of the Solidity front end: the scope builder     *)
(* (DeclarationRegistrationHelper), the name resolver with its C3          *)
(* linearization and scope import (NameAndTypeResolver), and the           *)
(* contract-level part of the type checker (TypeChecker).                  *)
(*                                                                         *)
(* Three specifications share the module:                                  *)
(*   Spec          resolveNamesAndTypes over the contracts of a source     *)
(*                 unit, in declaration order                              *)
(*   SpecRegister  the scope builder's walk over a tree of declarations    *)
(*   SpecCheck     TypeChecker::checkTypeRequirements on one contract      *)
(***************************************************************************)
EXTENDS Integers, Sequences, FiniteSets, TLC

VARIABLES
    \* ---- the core run on a source unit, and run again
    coreRun,                  \* which run of the core on the source unit this is (0: none)
    corePc,                   \* "idle" | "registerDeclarations" | "resolveNamesAndTypes" | "done" | "assertion"
    firstRun,                 \* the annotations and the diagnostics the first run left
    \* ---- TypeChecker: visits of expressions
    visitedExpression,        \* the expression node under visit, its sub-expressions visited
    exprAnnotation,           \* annotation() of the expression under visit
    exprPc,                   \* "idle" | "visit" | "returned" | "thrown" | "typed" | "assertion"
    \* ---- TypeChecker::endVisit(InheritanceSpecifier), TypeChecker::visitManually
    invocation,               \* the InheritanceSpecifier or ModifierInvocation under check
    invPc,                    \* "idle" | "visit" | "returned" | "crashed"
    invAccess,                \* whether the check dereferenced a null parameter list or read a parameter that does not exist
    \* ---- TypeChecker::visit(StructDefinition)
    structMembers,            \* per struct and per struct referred to, the category of the member referring to it
    visitedStruct,            \* the struct definition under visit
    structStack,              \* the activations of the lambda check, innermost last
    structPc,                 \* "idle" | "check" | "returned" | "thrown"
    \* ---- TypeChecker::visit(Identifier)
    annotation,               \* the IdentifierAnnotation of the identifier under visit
    idPc,                     \* "idle" | "visit" | "returned" | "thrown"
    \* ---- the statements of one resolveNamesAndTypes(_contract)
    resolving,                \* step -> number of nodes its loop visits (the lists of _contract, its proper bases)
    resolveStep,              \* index of the loop reached in ResolveSteps; 0 when not running
    resolveIndex,             \* the next element of that loop
    resolveLog,               \* the steps taken so far: [step, item, ok]
    resolveReturned,          \* "none" | "catch" | "true" | "false"
    \* ---- smtCheckerTests/types/address_transfer.sol
    balances,                 \* address -> balance
    f_a,                      \* the argument a of C.f
    fpc,                      \* the statement of C.f reached: "idle" | "require" | "transfer" | "assert" | "done" | "reverted"
    warnings,                 \* the codes of the warnings reported so far
    \* ---- GasMeter::GasConsumption
    gas,                      \* the GasConsumption that operator+= is applied to (*this)
    gasOther,                 \* _other, the argument of the last operator+=
    \* ---- NameAndTypeResolver::cThreeMerge
    mergeInput,               \* the lists as they were passed to cThreeMerge
    _toMerge,                 \* the list of lists, which the call empties
    mergeResult,              \* the local vector result; the returned vector after the return
    mergePc,                  \* "idle" | "start" | "loop" | "returned" | "failed"
    \* ---- the AST of the source unit (input of the resolver)
    baseContracts,            \* contract -> list of referenced declarations of its InheritanceSpecifiers
    \* ---- annotations written by NameAndTypeResolver
    linearizedBaseContracts,  \* contract -> ContractDefinitionAnnotation::linearizedBaseContracts
    contractDependencies,     \* contract -> ContractDefinitionAnnotation::contractDependencies
    \* ---- state shared by the passes
    m_errors,                 \* the ErrorList
    m_scopes,                 \* scope key -> DeclarationContainer
    m_currentScope,           \* the active scope (key of m_scopes)
    \* ---- the driver's position and what the calls returned
    nextContract,             \* next contract to hand to resolveNamesAndTypes
    returned,                 \* contract -> "none" | "true" | "false"
    imported,                 \* contract -> registerDeclaration calls made by importInheritedScope
    \* ---- the scope builder's walk
    walk,                     \* declarations visited so far, in visiting order
    lastRegistered,           \* what the last registerDeclaration call did
    \* ---- TypeChecker::checkTypeRequirements
    checked,                  \* the ContractDefinition under check
    pc,                       \* position inside checkTypeRequirements / visit(ContractDefinition)
    thrown,                   \* FatalError in flight / caught
    success,                  \* return value of checkTypeRequirements
    \* ---- Types.cpp
    constructed,              \* the Type objects made so far, in order of construction
    convertible,              \* what isImplicitlyConvertibleTo returned: "none" | "true" | "false"
    aborted,                  \* a BOOST_ASSERT failed
    \* ---- TypeChecker::endVisit(Return)
    returnStatement           \* the Return node under check: the type of its expression (<<>>
                              \* without one) and annotation().functionReturnParameters

resolverVars == <<baseContracts, linearizedBaseContracts, contractDependencies,
                  nextContract, returned, imported>>
registrarVars == <<walk, lastRegistered>>
checkerVars == <<checked, pc, thrown, success>>
typeVars == <<constructed, convertible, aborted, returnStatement>>
mergeVars == <<mergeInput, _toMerge, mergeResult, mergePc>>
gasVars == <<gas, gasOther>>
transferVars == <<balances, f_a, fpc, warnings>>
stepVars == <<resolving, resolveStep, resolveIndex, resolveLog, resolveReturned>>
identifierVars == <<annotation, idPc>>
structVars == <<structMembers, visitedStruct, structStack, structPc>>
invocationVars == <<invocation, invPc, invAccess>>
expressionVars == <<visitedExpression, exprAnnotation, exprPc>>
coreVars == <<coreRun, corePc, firstRun>>
vars == <<resolverVars, registrarVars, checkerVars, typeVars, m_errors, m_scopes, m_currentScope, mergeVars, gasVars, transferVars, stepVars, identifierVars, structVars, invocationVars, expressionVars, coreVars>>

\* No type was constructed and no Return node is under check.
IdleTypes ==
    /\ constructed = <<>>
    /\ convertible = "none"
    /\ aborted = FALSE
    /\ returnStatement = [expression |-> <<>>, hasReturnParameters |-> FALSE,
                          parameters |-> <<>>]

\* cThreeMerge is not running.
IdleMerge ==
    /\ mergeInput = <<>>
    /\ _toMerge = <<>>
    /\ mergeResult = <<>>
    /\ mergePc = "idle"

\* No gas has been added up.
IdleGas ==
    /\ gas = [value |-> 0, isInfinite |-> FALSE]
    /\ gasOther = [value |-> 0, isInfinite |-> FALSE]

\* C.f is not being analysed.
IdleTransfer ==
    /\ balances = <<>>
    /\ f_a = ""
    /\ fpc = "idle"
    /\ warnings = {}

\* No call of resolveNamesAndTypes is being followed statement by statement.
IdleSteps ==
    /\ resolving = <<>>
    /\ resolveStep = 0
    /\ resolveIndex = 1
    /\ resolveLog = <<>>
    /\ resolveReturned = "none"

\* No identifier is being visited.
IdleIdentifier ==
    /\ annotation = <<>>
    /\ idPc = "idle"

\* No struct definition is being visited.
IdleStruct ==
    /\ structMembers = <<>>
    /\ visitedStruct = 0
    /\ structStack = <<>>
    /\ structPc = "idle"

\* No inheritance specifier or modifier invocation is being checked.
IdleInvocation ==
    /\ invocation = <<>>
    /\ invPc = "idle"
    /\ invAccess = [nullDereferenced |-> FALSE, outOfRange |-> FALSE]

\* No expression is being visited.
IdleExpression ==
    /\ visitedExpression = <<>>
    /\ exprAnnotation = <<>>
    /\ exprPc = "idle"

\* No run of the whole core is under way.
IdleCore ==
    /\ coreRun = 0
    /\ corePc = "idle"
    /\ firstRun = <<>>

(***************************************************************************)
(* Bounds                                                                  *)
(***************************************************************************)
NumContracts == 3
MaxSpecifiers == 3

Contracts == 1..NumContracts

\* dynamic_cast<ContractDefinition const*> of a declaration that is no contract
NoContract == 0

Min(S) == CHOOSE x \in S : \A y \in S : x <= y

(***************************************************************************)
(* Errors                                                                  *)
(***************************************************************************)
Error(type, msg, loc, sec) == [type |-> type, msg |-> msg, loc |-> loc, sec |-> sec]

NoLocation == <<>>

(***************************************************************************)
(* Declarations and scopes                                                 *)
(***************************************************************************)
Decl(id, name, kind, visibility, isConstructor, start, scope) ==
    [id |-> id, name |-> name, kind |-> kind, visibility |-> visibility,
     isConstructor |-> isConstructor, start |-> start, scope |-> scope]

\* no declaration (nullptr)
NoDecl == Decl(NoContract, "", "none", "internal", FALSE, NoContract, NoContract)

\* enum class Visibility { Default, Private, Internal, Public, External }
VisibilityRank(v) ==
    CASE v = "private" -> 1
      [] v = "internal" -> 2
      [] v = "public" -> 3
      [] v = "external" -> 4

\* Declaration::isVisibleInContract, overridden by FunctionDefinition
isVisibleInContract(d) ==
    /\ d.visibility # "external"
    /\ d.kind = "function" => (~d.isConstructor /\ d.name # "")

isVisibleInDerivedContracts(d) ==
    isVisibleInContract(d) /\ VisibilityRank(d.visibility) >= VisibilityRank("internal")

\* A DeclarationContainer: the declarations of one scope, in registration order.
Container(enclosing, declarations, invisible) ==
    [enclosing |-> enclosing, declarations |-> declarations, invisible |-> invisible]

SeqRange(s) == {s[i] : i \in 1..Len(s)}

\* DeclarationContainer::conflictingDeclaration: the declarations one of which is
\* returned (which one depends on the container's iteration order).
ConflictCandidates(container, d) ==
    LET same == {x \in SeqRange(container.declarations) \cup SeqRange(container.invisible) :
                    x.name = d.name}
    IN  IF d.kind = "function"
        THEN {x \in same : x.kind # "function"}
        ELSE same

\* DeclarationContainer::registerDeclaration(_declaration, _invisible), no update
registerDeclarationOk(container, d) ==
    d.name = "" \/ ConflictCandidates(container, d) = {}

registerDeclarationIn(container, d, invisible) ==
    IF d.name = "" \/ ~registerDeclarationOk(container, d)
    THEN container
    ELSE IF invisible
         THEN [container EXCEPT !.invisible = Append(@, d)]
         ELSE [container EXCEPT !.declarations = Append(@, d)]

(***************************************************************************)
(* The source unit handed to the resolver: NumContracts contracts in       *)
(* declaration order, each with a state variable, a struct, two functions  *)
(* and a constructor whose visibilities vary with the contract.            *)
(***************************************************************************)
ContractNames == <<"A", "B", "C", "D", "E", "F", "G", "H">>
MemberNames == <<"S", "f", "g", "x">>
\* std::map<ASTString, ...> iterates in this order
NameOrder == ContractNames \o MemberNames
NameRank(n) == CHOOSE i \in 1..Len(NameOrder) : NameOrder[i] = n

MembersPerContract == Len(MemberNames) + 1
MemberId(c, k) == NumContracts + (c - 1) * MembersPerContract + k
ContractStart(c) == c * (MembersPerContract + 1)

ContractDecl(c) ==
    Decl(c, ContractNames[c], "contract", "public", FALSE, ContractStart(c), NoContract)

\* stateVariables, definedStructs and definedFunctions of contract c
Members(c) ==
    << Decl(MemberId(c, 1), "x", "variable",
            <<"private", "internal", "public">>[(c % 3) + 1], FALSE, ContractStart(c) + 1, c),
       Decl(MemberId(c, 2), "S", IF c % 2 = 0 THEN "struct" ELSE "variable",
            "public", FALSE, ContractStart(c) + 2, c),
       Decl(MemberId(c, 3), "f", "function",
            <<"public", "external", "internal">>[(c % 3) + 1], FALSE, ContractStart(c) + 3, c),
       Decl(MemberId(c, 4), "g", "function",
            IF c % 2 = 1 THEN "public" ELSE "private", FALSE, ContractStart(c) + 4, c),
       Decl(MemberId(c, 5), ContractNames[c], "function",
            "public", TRUE, ContractStart(c) + 5, c) >>

definedFunctions(c) == SelectSeq(Members(c), LAMBDA d : d.kind = "function")

RECURSIVE RegisterAll(_, _)
RegisterAll(container, ds) ==
    IF ds = <<>> THEN container
    ELSE RegisterAll(registerDeclarationIn(container, Head(ds), ~isVisibleInContract(Head(ds))),
                     Tail(ds))

\* m_scopes as the scope builder leaves it for this source unit
RegisteredScopes ==
    [k \in 0..MemberId(NumContracts, MembersPerContract) |->
        IF k = NoContract
        THEN RegisterAll(Container(NoContract, <<>>, <<>>), [c \in Contracts |-> ContractDecl(c)])
        ELSE IF k \in Contracts
        THEN RegisterAll(Container(NoContract, <<>>, <<>>), Members(k))
        ELSE Container(((k - NumContracts - 1) \div MembersPerContract) + 1, <<>>, <<>>)]

(***************************************************************************)
(* NameAndTypeResolver::cThreeMerge                                         *)
(***************************************************************************)
RemoveEmptyLists(toMerge) == SelectSeq(toMerge, LAMBDA bases : bases # <<>>)

\* find(++bases.begin(), bases.end(), _candidate) != bases.end()
InTail(candidate, bases) == \E k \in 2..Len(bases) : bases[k] = candidate

appearsOnlyAtHead(candidate, toMerge) ==
    \A i \in 1..Len(toMerge) : ~InTail(candidate, toMerge[i])

\* nextCandidate without the test of the tails
nextCandidateAnyHead(toMerge) == Head(toMerge[1])

\* the head of the first list whose head appears in no tail; NoContract (nullptr) on failure
nextCandidate(toMerge) ==
    LET ok == {i \in 1..Len(toMerge) : appearsOnlyAtHead(Head(toMerge[i]), toMerge)}
    IN  IF ok = {} THEN NoContract ELSE Head(toMerge[Min(ok)])

\* removeCandidate taking the candidate out of the first list only
removeCandidateFromFirst(candidate, lists) ==
    RemoveEmptyLists([i \in 1..Len(lists) |->
                        IF i = 1 THEN SelectSeq(lists[i], LAMBDA x : x # candidate)
                        ELSE lists[i]])

removeCandidate(candidate, lists) ==
    RemoveEmptyLists([i \in 1..Len(lists) |->
                        SelectSeq(lists[i], LAMBDA x : x # candidate)])

RECURSIVE MergeLoop(_, _)
MergeLoop(toMerge, merged) ==
    IF toMerge = <<>> THEN merged
    ELSE LET candidate == nextCandidate(toMerge)
         IN  IF candidate = NoContract
             THEN <<>>
             ELSE MergeLoop(removeCandidate(candidate, toMerge), Append(merged, candidate))

\* cThreeMerge returning what it has merged so far when no candidate is left
RECURSIVE MergeLoopPartial(_, _)
MergeLoopPartial(toMerge, merged) ==
    IF toMerge = <<>> THEN merged
    ELSE LET candidate == nextCandidate(toMerge)
         IN  IF candidate = NoContract
             THEN merged
             ELSE MergeLoopPartial(removeCandidate(candidate, toMerge), Append(merged, candidate))

cThreeMergePartial(toMerge) == MergeLoopPartial(RemoveEmptyLists(toMerge), <<>>)

cThreeMerge(toMerge) == MergeLoop(RemoveEmptyLists(toMerge), <<>>)

(***************************************************************************)
(* NameAndTypeResolver::linearizeBaseContracts                              *)
(***************************************************************************)
\* input.back().push_back(x) in place of push_front
PushBackOfBack(input, x) == [input EXCEPT ![Len(input)] = Append(@, x)]

\* input.back().push_front(x)
PushFrontOfBack(input, x) == [input EXCEPT ![Len(input)] = <<x>> \o @]

\* the linearization of the base left out of the input
PushFrontDropped(input, list) == input

\* input.push_front(list)
PushFront(input, list) == <<list>> \o input

\* the test of basesBases.empty() left out
basesBasesNeverEmpty(base, lin) == FALSE

\* basesBases.empty(), basesBases being base->annotation().linearizedBaseContracts
basesBasesEmpty(base, lin) == lin[base] = <<>>

MsgContractExpected == "Contract expected."
MsgBasePrecede == "Definition of base has to precede definition of derived contract"
MsgLinearization == "Linearization of inheritance graph impossible"

\* The loop over the inheritance specifiers from specifier i on: the input lists built,
\* or the fatal error raised on the way.
RECURSIVE BuildInput(_, _, _, _, _)
BuildInput(c, specifiers, i, input, lin) ==
    IF i > Len(specifiers)
    THEN [fatal |-> FALSE, input |-> input]
    ELSE LET base == specifiers[i]
         IN  IF base = NoContract
             THEN [fatal |-> TRUE, error |-> Error("TypeError", MsgContractExpected, <<c, i>>, NoLocation)]
             ELSE IF basesBasesEmpty(base, lin)
             THEN [fatal |-> TRUE, error |-> Error("TypeError", MsgBasePrecede, <<c, i>>, NoLocation)]
             ELSE BuildInput(c, specifiers, i + 1,
                             PushFront(PushFrontOfBack(input, base), lin[base]), lin)

\* The outcome of linearizeBaseContracts(c): a FatalError with the error recorded
\* before it, or the result assigned to the annotation.
linearizeBaseContracts(c, specifiers, lin) ==
    LET built == BuildInput(c, specifiers, 1, << <<>> >>, lin)
    IN  IF built.fatal THEN built
        ELSE LET result == cThreeMerge(PushFrontOfBack(built.input, c))
             IN  IF result = <<>>
                 THEN [fatal |-> TRUE,
                       error |-> Error("TypeError", MsgLinearization, <<c, 0>>, NoLocation)]
                 ELSE [fatal |-> FALSE, result |-> result]

(***************************************************************************)
(* NameAndTypeResolver::importInheritedScope                                *)
(***************************************************************************)
\* iteration over DeclarationContainer::declarations(): by name, then by registration
RECURSIVE ByName(_, _)
ByName(ds, r) ==
    IF r > Len(NameOrder) THEN <<>>
    ELSE SelectSeq(ds, LAMBDA d : d.name = NameOrder[r]) \o ByName(ds, r + 1)

\* the import without the test of the declaring scope
ImportConditionAnyScope(d, base) == isVisibleInDerivedContracts(d)

\* Import if it was declared in the base, is not the constructor and is visible in derived classes
ImportCondition(d, base) ==
    d.scope = base /\ isVisibleInDerivedContracts(d)

\* the declarations importInheritedScope(base) hands to registerDeclaration, in order
importInheritedScope(base, scopes) ==
    SelectSeq(ByName(scopes[base].declarations, 1), LAMBDA d : ImportCondition(d, base))

\* the calls of all importInheritedScope(base), base ranging over properBases in order
RECURSIVE ImportCalls(_, _)
ImportCalls(properBases, scopes) ==
    IF properBases = <<>> THEN <<>>
    ELSE [i \in 1..Len(importInheritedScope(Head(properBases), scopes)) |->
             [base |-> Head(properBases),
              decl |-> importInheritedScope(Head(properBases), scopes)[i]]]
         \o ImportCalls(Tail(properBases), scopes)

RECURSIVE ApplyImports(_, _)
ApplyImports(container, calls) ==
    IF calls = <<>> THEN container
    ELSE ApplyImports(registerDeclarationIn(container, Head(calls).decl, FALSE), Tail(calls))

(***************************************************************************)
(* NameAndTypeResolver::resolveNamesAndTypes, called by the driver for     *)
(* each contract of the source unit in declaration order                   *)
(***************************************************************************)
MsgUndeclared == "Undeclared identifier."

\* Where ReferencesResolver gives up with reportFatalDeclarationError: nowhere (0), in a
\* struct, enum, state variable or event (1), or in the j-th function (1 + j).
FailurePoints(c) == 0..(Len(definedFunctions(c)) + 1)

\* m_currentScope where resolution stopped (the scope of the last function when it did not)
ScopeAt(c, failAt) ==
    IF failAt = 1 \/ definedFunctions(c) = <<>> THEN c
    ELSE IF failAt = 0 THEN definedFunctions(c)[Len(definedFunctions(c))].id
    ELSE definedFunctions(c)[failAt - 1].id

ResolveNamesAndTypes(c) ==
    /\ nextContract = c
    /\ c \in Contracts
    /\ nextContract' = c + 1
    /\ LET lr == linearizeBaseContracts(c, baseContracts[c], linearizedBaseContracts)
       IN  IF lr.fatal
           THEN /\ m_errors' = Append(m_errors, lr.error)
                /\ m_currentScope' = c
                /\ returned' = [returned EXCEPT ![c] = "false"]
                /\ UNCHANGED <<linearizedBaseContracts, contractDependencies, m_scopes, imported>>
           ELSE LET properBases == Tail(lr.result)
                    calls == ImportCalls(properBases, m_scopes)
                IN  /\ linearizedBaseContracts' = [linearizedBaseContracts EXCEPT ![c] = lr.result]
                    /\ contractDependencies' =
                          [contractDependencies EXCEPT ![c] = @ \cup SeqRange(properBases)]
                    /\ m_scopes' = [m_scopes EXCEPT ![c] = ApplyImports(@, calls)]
                    /\ imported' = [imported EXCEPT ![c] = calls]
                    /\ \E failAt \in FailurePoints(c) :
                          /\ m_currentScope' = ScopeAt(c, failAt)
                          /\ IF failAt = 0
                             THEN /\ returned' = [returned EXCEPT ![c] = "true"]
                                  /\ UNCHANGED m_errors
                             ELSE /\ returned' = [returned EXCEPT ![c] = "false"]
                                  /\ m_errors' = Append(m_errors,
                                        Error("DeclarationError", MsgUndeclared, <<c, 0>>, NoLocation))
    /\ UNCHANGED <<mergeVars, gasVars, transferVars, stepVars, identifierVars, structVars, invocationVars, expressionVars, coreVars, baseContracts, registrarVars, checkerVars, typeVars>>

\* The inheritance specifiers of the source unit: at most MaxSpecifiers in all, each
\* naming any contract of the unit (itself and later ones included) or a declaration
\* that is no contract.
SpecifierLists ==
    UNION {
        { [c \in Contracts |->
              LET mine == {i \in 1..k : owner[i] = c}
              IN  [j \in 1..Cardinality(mine) |-> refs[Min(mine) + j - 1]]] :
          refs \in [1..k -> Contracts \cup {NoContract}],
          owner \in {o \in [1..k -> Contracts] : \A i \in 1..k, j \in 1..k : i <= j => o[i] <= o[j]} }
        : k \in 0..MaxSpecifiers }

IdleRegistrar ==
    /\ walk = <<>>
    /\ lastRegistered = [called |-> FALSE, decl |-> NoDecl, conflict |-> FALSE,
                         other |-> NoDecl, errorsBefore |-> 0]

IdleChecker ==
    /\ checked = [name |-> "", definedFunctions |-> <<>>]
    /\ pc = "idle"
    /\ thrown = FALSE
    /\ success = "none"

Init ==
    /\ IdleCore
    /\ IdleExpression
    /\ IdleInvocation
    /\ IdleStruct
    /\ IdleIdentifier
    /\ IdleSteps
    /\ IdleTransfer
    /\ IdleGas
    /\ IdleMerge
    /\ baseContracts \in SpecifierLists
    /\ linearizedBaseContracts = [c \in Contracts |-> <<>>]
    /\ contractDependencies = [c \in Contracts |-> {}]
    /\ m_errors = <<>>
    /\ m_scopes = RegisteredScopes
    /\ m_currentScope = NoContract
    /\ nextContract = 1
    /\ returned = [c \in Contracts |-> "none"]
    /\ imported = [c \in Contracts |-> <<>>]
    /\ IdleRegistrar
    /\ IdleTypes
    /\ IdleChecker

Next == \E c \in Contracts : ResolveNamesAndTypes(c)

Spec == Init /\ [][Next]_vars

(***************************************************************************)
(* Properties of the linearization (Spec)                                  *)
(***************************************************************************)
Pos(x, seq) == Min({i \in 1..Len(seq) : seq[i] = x})
Contains(seq, x) == \E i \in 1..Len(seq) : seq[i] = x
Linearized(c) == linearizedBaseContracts[c] # <<>>
\* the direct bases of d: the contracts its inheritance specifiers name
DirectBases(d) == SeqRange(baseContracts[d]) \ {NoContract}
LastError == m_errors[Len(m_errors)]

\* C1: every computed linearization starts with its own contract, holds no contract
\* twice, and puts a contract before each of its direct bases.
C1_LinearizationWellFormed ==
    \A c \in Contracts :
        Linearized(c) =>
            LET lin == linearizedBaseContracts[c]
            IN  /\ lin[1] = c
                /\ \A i \in 1..Len(lin), j \in 1..Len(lin) : lin[i] = lin[j] => i = j
                /\ \A d \in SeqRange(lin) : \A b \in DirectBases(d) :
                      Contains(lin, b) => Pos(d, lin) < Pos(b, lin)

\* a linearization of a diamond or a chain: three contracts or more, one of them a
\* proper base that has a direct base of its own
C1_Witness ==
    \E c \in Contracts :
        /\ Len(linearizedBaseContracts[c]) >= 3
        /\ \E d \in SeqRange(linearizedBaseContracts[c]) \ {c} :
              DirectBases(d) \cap SeqRange(linearizedBaseContracts[c]) # {}

\* The merge gets stuck: lists remain and no head is absent from all tails.
RECURSIVE MergeGetsStuck(_)
MergeGetsStuck(toMerge) ==
    /\ toMerge # <<>>
    /\ \/ \A i \in 1..Len(toMerge) : \E k \in 1..Len(toMerge) : InTail(Head(toMerge[i]), toMerge[k])
       \/ MergeGetsStuck(removeCandidate(nextCandidate(toMerge), toMerge))

\* the lists handed to cThreeMerge for c when every specifier passes its checks
MergeInputOf(c) ==
    LET built == BuildInput(c, baseContracts[c], 1, << <<>> >>, linearizedBaseContracts)
    IN  IF built.fatal THEN <<>> ELSE RemoveEmptyLists(PushFrontOfBack(built.input, c))

\* C2: when the merge for c gets stuck, resolveNamesAndTypes(c) records exactly the
\* TypeError 'Linearization of inheritance graph impossible' at c, returns false and
\* leaves c's linearizedBaseContracts and contractDependencies as they were.
C2_StuckMergeIsFatal ==
    [][\A c \in Contracts :
          (ResolveNamesAndTypes(c) /\ MergeGetsStuck(MergeInputOf(c))) =>
              /\ m_errors' = Append(m_errors, Error("TypeError", MsgLinearization, <<c, 0>>, NoLocation))
              /\ returned'[c] = "false"
              /\ linearizedBaseContracts'[c] = linearizedBaseContracts[c]
              /\ contractDependencies'[c] = contractDependencies[c]]_vars

C2_Witness ==
    \E c \in Contracts :
        /\ returned[c] = "false"
        /\ m_errors # <<>>
        /\ LastError = Error("TypeError", MsgLinearization, <<c, 0>>, NoLocation)
        /\ linearizedBaseContracts[c] = <<>>
        /\ Len(baseContracts[c]) >= 2

\* C3: direct bases that are pairwise unrelated by inheritance appear in the
\* linearization in reverse declaration order.
PairwiseUnrelated(c) ==
    \A i \in 1..Len(baseContracts[c]), j \in 1..Len(baseContracts[c]) :
        i # j => ~Contains(linearizedBaseContracts[baseContracts[c][i]], baseContracts[c][j])

C3_LaterBaseFirst ==
    \A c \in Contracts :
        (Linearized(c) /\ PairwiseUnrelated(c)) =>
            \A i \in 1..Len(baseContracts[c]), j \in 1..Len(baseContracts[c]) :
                i < j => Pos(baseContracts[c][j], linearizedBaseContracts[c])
                            < Pos(baseContracts[c][i], linearizedBaseContracts[c])

C3_Witness ==
    \E c \in Contracts :
        /\ Linearized(c)
        /\ Len(baseContracts[c]) >= 2
        /\ PairwiseUnrelated(c)

\* C4: monotonicity: the linearization of every contract b contained in the
\* linearization of c appears in it whole and in the same relative order.
C4_Monotonic ==
    \A c \in Contracts : \A b \in SeqRange(linearizedBaseContracts[c]) :
        LET linC == linearizedBaseContracts[c]
            linB == linearizedBaseContracts[b]
        IN  /\ linB # <<>>
            /\ \A x \in SeqRange(linB) : Contains(linC, x)
            /\ \A i \in 1..Len(linB), j \in 1..Len(linB) :
                  i < j => Pos(linB[i], linC) < Pos(linB[j], linC)

\* a contract with two direct bases, one of which has a base itself
C4_Witness ==
    \E c \in Contracts : \E b \in SeqRange(linearizedBaseContracts[c]) \ {c} :
        /\ Len(linearizedBaseContracts[b]) >= 2
        /\ Len(linearizedBaseContracts[c]) >= 3
        /\ Len(baseContracts[c]) >= 2

\* The linearization of b was empty when c was linearized: b is c itself, is defined
\* after c, or failed to linearize.
EmptyWhenLinearized(c, b) == b >= c \/ linearizedBaseContracts[b] = <<>>

HasError(type, msg, loc) ==
    \E i \in 1..Len(m_errors) : m_errors[i] = Error(type, msg, loc, NoLocation)

\* C5 as stated: a direct base whose linearization is still empty always gets the
\* TypeError 'Definition of base has to precede definition of derived contract'.
C5_AnyEmptyBaseReported ==
    \A c \in Contracts :
        (returned[c] # "none" /\ \E b \in DirectBases(c) : EmptyWhenLinearized(c, b)) =>
            /\ returned[c] = "false"
            /\ linearizedBaseContracts[c] = <<>>
            /\ \E i \in 1..Len(baseContracts[c]) : HasError("TypeError", MsgBasePrecede, <<c, i>>)

\* the first inheritance specifier of c that fails a check of linearizeBaseContracts
FirstFailing(c) ==
    Min({i \in 1..Len(baseContracts[c]) :
            baseContracts[c][i] = NoContract \/ EmptyWhenLinearized(c, baseContracts[c][i])})

\* C5, amended: with a direct base whose linearization is still empty, c gets no
\* linearization and resolveNamesAndTypes(c) returns false with one error recorded:
\* at the first failing specifier, 'Definition of base has to precede ...' if it names
\* a contract and 'Contract expected.' if it names none.
C5_EmptyBaseIsFatal ==
    \A c \in Contracts :
        (returned[c] # "none" /\ \E b \in DirectBases(c) : EmptyWhenLinearized(c, b)) =>
            /\ returned[c] = "false"
            /\ linearizedBaseContracts[c] = <<>>
            /\ contractDependencies[c] = {}
            /\ LET i == FirstFailing(c)
                   msg == IF baseContracts[c][i] = NoContract
                          THEN MsgContractExpected ELSE MsgBasePrecede
               IN  /\ HasError("TypeError", msg, <<c, i>>)
                   /\ Cardinality({k \in 1..Len(m_errors) : m_errors[k].loc[1] = c}) = 1

\* a base defined later, the contract itself, and a base that failed to linearize
C5_Witness ==
    /\ \E c \in Contracts : \E b \in DirectBases(c) :
          /\ b < c
          /\ returned[b] = "false"
          /\ linearizedBaseContracts[b] = <<>>
          /\ \E i \in 1..Len(baseContracts[c]) : HasError("TypeError", MsgBasePrecede, <<c, i>>)
    /\ \E c \in Contracts : \E b \in DirectBases(c) :
          /\ b >= c
          /\ \E i \in 1..Len(baseContracts[c]) : HasError("TypeError", MsgBasePrecede, <<c, i>>)

(***************************************************************************)
(* Properties of the scope import (Spec)                                   *)
(***************************************************************************)
ImportedThrough(c, b, d) ==
    \E i \in 1..Len(imported[c]) : imported[c][i] = [base |-> b, decl |-> d]

\* the contracts reachable from c along inheritance specifiers
RECURSIVE Ancestors(_, _)
Ancestors(c, depth) ==
    IF depth = 0 THEN {}
    ELSE DirectBases(c) \cup UNION {Ancestors(b, depth - 1) : b \in DirectBases(c)}

MaxDecls == 4

RegNames == {"a", "b"}
MsgAlreadyDeclared == "Identifier already declared."

\* a built-in identifier registered by the NameAndTypeResolver constructor; it has the
\* default SourceLocation, whose start is -1
GlobalDecl == Decl(-1, "a", "variable", "public", FALSE, -1, NoContract)

\* the kinds of declaration the AST allows inside a declaration of kind k
KindsInside(k) ==
    CASE k = "unit" -> {"contract"}
      [] k = "contract" -> {"struct", "variable", "function"}
      [] k = "struct" -> {"variable"}
      [] k = "function" -> {"variable"}

\* registerDeclaration(_declaration, true) is what the visits of these kinds call
OpensScope(k) == k \in {"contract", "struct", "function"}

Visited(id) == CHOOSE d \in SeqRange(walk) : d.id = id
KindOfScope(key) == IF key = NoContract THEN "unit" ELSE Visited(key).kind
StartOfScope(key) == IF key = NoContract THEN 0 ELSE Visited(key).start

\* the locations of the error without the comparison of the two starts
DeclarationOrderUncompared(d, conflicting) ==
    [first |-> conflicting.start, second |-> d.start]

\* firstDeclarationLocation and secondDeclarationLocation of registerDeclaration
DeclarationOrder(d, conflicting) ==
    IF d.start < conflicting.start
    THEN [first |-> d.start, second |-> conflicting.start]
    ELSE [first |-> conflicting.start, second |-> d.start]

\* declarationError(secondDeclarationLocation, "Identifier already declared.",
\*                  firstDeclarationLocation, "The previous declaration is here:")
AlreadyDeclaredError(d, conflicting) ==
    Error("DeclarationError", MsgAlreadyDeclared,
          <<DeclarationOrder(d, conflicting).second>>,
          <<DeclarationOrder(d, conflicting).first>>)

\* DeclarationRegistrationHelper::registerDeclaration, called by visit(...)
RegisterDeclaration(d) ==
    LET container == m_scopes[m_currentScope]
        invisible == ~isVisibleInContract(d)
    IN  /\ IF registerDeclarationOk(container, d)
           THEN /\ m_scopes' =
                      (IF OpensScope(d.kind)
                       THEN (d.id :> Container(m_currentScope, <<>>, <<>>)) ELSE <<>>)
                      @@ [m_scopes EXCEPT ![m_currentScope] =
                              registerDeclarationIn(container, d, invisible)]
                /\ UNCHANGED m_errors
                /\ lastRegistered' = [called |-> TRUE, decl |-> d, conflict |-> FALSE,
                                      other |-> NoDecl, errorsBefore |-> Len(m_errors)]
           ELSE \E conflicting \in ConflictCandidates(container, d) :
                    /\ m_errors' = Append(m_errors, AlreadyDeclaredError(d, conflicting))
                    /\ m_scopes' =
                          (IF OpensScope(d.kind)
                           THEN (d.id :> Container(m_currentScope, <<>>, <<>>)) ELSE <<>>)
                          @@ m_scopes
                    /\ lastRegistered' = [called |-> TRUE, decl |-> d, conflict |-> TRUE,
                                          other |-> conflicting, errorsBefore |-> Len(m_errors)]
        /\ m_currentScope' = IF OpensScope(d.kind) THEN d.id ELSE m_currentScope
        /\ walk' = Append(walk, d)

\* visit(ContractDefinition), visit(StructDefinition), visit(FunctionDefinition),
\* visit(VariableDeclaration): the next declaration of the tree, inside the current one
VisitDeclaration ==
    /\ pc = "registering"
    /\ Len(walk) < MaxDecls
    /\ \E name \in RegNames, kind \in KindsInside(KindOfScope(m_currentScope)),
          start \in 1..MaxDecls, visibility \in {"internal", "external"} :
          /\ start > StartOfScope(m_currentScope)
          /\ \A i \in 1..Len(walk) : walk[i].start # start
          /\ kind # "function" => visibility = "internal"
          /\ RegisterDeclaration(
                Decl(Len(walk) + 1, name, kind, visibility,
                     kind = "function" /\ name = Visited(m_currentScope).name,
                     start, m_currentScope))
    /\ UNCHANGED <<typeVars, mergeVars, gasVars, transferVars, stepVars, identifierVars, structVars, invocationVars, expressionVars, coreVars, resolverVars, checkerVars>>

\* endVisit(...) of a declaration that opened a scope: closeCurrentScope
EndVisit ==
    /\ pc = "registering"
    /\ m_currentScope # NoContract
    /\ m_currentScope' = m_scopes[m_currentScope].enclosing
    /\ UNCHANGED <<typeVars, mergeVars, gasVars, transferVars, stepVars, identifierVars, structVars, invocationVars, expressionVars, coreVars, resolverVars, registrarVars, checkerVars, m_errors, m_scopes>>

IdleResolver ==
    /\ baseContracts = [c \in Contracts |-> <<>>]
    /\ linearizedBaseContracts = [c \in Contracts |-> <<>>]
    /\ contractDependencies = [c \in Contracts |-> {}]
    /\ nextContract = NumContracts + 1
    /\ returned = [c \in Contracts |-> "none"]
    /\ imported = [c \in Contracts |-> <<>>]

InitRegister ==
    /\ IdleCore
    /\ IdleExpression
    /\ IdleInvocation
    /\ IdleStruct
    /\ IdleIdentifier
    /\ IdleSteps
    /\ IdleTransfer
    /\ IdleGas
    /\ IdleMerge
    /\ IdleResolver
    /\ IdleTypes
    /\ m_errors = <<>>
    /\ m_scopes = (NoContract :> Container(NoContract, <<GlobalDecl>>, <<>>))
    /\ m_currentScope = NoContract
    /\ walk = <<>>
    /\ lastRegistered = [called |-> FALSE, decl |-> NoDecl, conflict |-> FALSE,
                         other |-> NoDecl, errorsBefore |-> 0]
    /\ checked = [name |-> "", definedFunctions |-> <<>>]
    /\ pc = "registering"
    /\ thrown = FALSE
    /\ success = "none"

NextRegister == VisitDeclaration \/ EndVisit

SpecRegister == InitRegister /\ [][NextRegister]_vars

\* C7 as stated: the error of a conflicting registration has the earlier-declared of
\* the two declarations as its primary location and the later one as the secondary.
C7_PrimaryIsEarlier ==
    (lastRegistered.called /\ lastRegistered.conflict) =>
        LET d == lastRegistered.decl
            o == lastRegistered.other
        IN  /\ LastError.loc = <<IF d.start < o.start THEN d.start ELSE o.start>>
            /\ LastError.sec = <<IF d.start < o.start THEN o.start ELSE d.start>>

\* C7, amended: a conflicting registration appends exactly one DeclarationError
\* 'Identifier already declared.' whose primary location is the later-declared of the
\* two declarations (the larger source start); the earlier-declared one is the
\* secondary location.
C7_PrimaryIsLater ==
    (lastRegistered.called /\ lastRegistered.conflict) =>
        LET d == lastRegistered.decl
            o == lastRegistered.other
        IN  /\ Len(m_errors) = lastRegistered.errorsBefore + 1
            /\ LastError.type = "DeclarationError"
            /\ LastError.msg = MsgAlreadyDeclared
            /\ LastError.loc = <<IF d.start < o.start THEN o.start ELSE d.start>>
            /\ LastError.sec = <<IF d.start < o.start THEN d.start ELSE o.start>>
            /\ o.name = d.name
            /\ o \in SeqRange(m_scopes[d.scope].declarations) \cup SeqRange(m_scopes[d.scope].invisible)
            /\ d \notin SeqRange(m_scopes[d.scope].declarations) \cup SeqRange(m_scopes[d.scope].invisible)

\* a conflict in which the declaration being registered is the earlier one in the
\* source (a member of a contract visited after a later member of another kind)
C7_Witness ==
    /\ lastRegistered.called /\ lastRegistered.conflict
    /\ lastRegistered.decl.start < lastRegistered.other.start
    /\ lastRegistered.decl.scope # NoContract
    /\ Len(m_errors) >= 1

(***************************************************************************)
(* TypeChecker (SpecCheck, SpecDuplicates)                                 *)
(***************************************************************************)
MaxCheckedFunctions == 2
MaxOverloads == 3
MaxParameters == 1
MaxErrors == 2

ElementaryTypes == {"uint256", "bool"}
ParameterLists == UNION {[1..n -> ElementaryTypes] : n \in 0..MaxParameters}

CheckedContractName == "C"
\* std::map<string, ...> iterates the function names in this order
FunctionNameOrder == <<"", CheckedContractName, "f">>

\* a FunctionDefinition: its start is its position among the definitions of the contract
FunctionDefinition(name, parameterTypes, returns, start) ==
    [name |-> name, parameterTypes |-> parameterTypes, returns |-> returns, start |-> start]

isConstructor(f) == f.name = CheckedContractName

\* FunctionType::hasEqualArgumentTypes on the types of two function definitions
hasEqualArgumentTypes(f, g) ==
    /\ Len(f.parameterTypes) = Len(g.parameterTypes)
    /\ \A k \in 1..Len(f.parameterTypes) : f.parameterTypes[k] = g.parameterTypes[k]

\* TypeChecker::typeError and the m_errors.push_back of the other diagnostics
typeError(errors, loc, msg) == Append(errors, Error("TypeError", msg, loc, NoLocation))
declarationError(errors, loc, msg, sec) == Append(errors, Error("DeclarationError", msg, loc, sec))
warning(errors, loc, msg) == Append(errors, Error("Warning", msg, loc, NoLocation))

\* a FatalError thrown with nothing recorded
fatalWithoutError(errors, loc, msg) == errors

\* TypeChecker::fatalTypeError: the error list as the thrown FatalError leaves it
fatalTypeError(errors, loc, msg) == typeError(errors, loc, msg)

MsgDefinedTwice == "Function with same name and arguments defined twice."
MsgMoreConstructors == "More than one constructor defined."
MsgOneFallback == "Only one fallback function is allowed."
MsgFallbackParameters == "Fallback function cannot take parameters."
MsgConstructorReturns == "Non-empty \"returns\" directive for constructor."

\* functions[name]: the definitions of that name, in definition order
Overloads(functions, name) == SelectSeq(functions, LAMBDA f : f.name = name)

\* the pairs (i, j), i < j, of one list of overloads in the order of the two loops
RECURSIVE PairsFrom(_, _, _)
PairsFrom(n, i, j) ==
    IF i > n THEN <<>>
    ELSE IF j > n THEN PairsFrom(n, i + 1, i + 2)
    ELSE <<[i |-> i, j |-> j]>> \o PairsFrom(n, i, j + 1)

\* the duplicate test comparing the names only
DuplicateTestByName(f, g) == TRUE

\* FunctionType(*overloads[i]).hasEqualArgumentTypes(FunctionType(*overloads[j]))
DuplicateTest(f, g) == hasEqualArgumentTypes(f, g)

\* errinfo_sourceLocation(overloads[j]->location()), "Other declaration is here:" overloads[i]
DefinedTwiceError(fi, fj) ==
    Error("DeclarationError", MsgDefinedTwice, <<fj.start>>, <<fi.start>>)

\* the errors of the loop over the overloads of one name
DuplicateErrorsOf(overloads) ==
    LET pairs == SelectSeq(PairsFrom(Len(overloads), 1, 2),
                           LAMBDA p : DuplicateTest(overloads[p.i], overloads[p.j]))
    IN  [k \in 1..Len(pairs) |-> DefinedTwiceError(overloads[pairs[k].i], overloads[pairs[k].j])]

RECURSIVE DuplicateErrors(_, _)
DuplicateErrors(functions, r) ==
    IF r > Len(FunctionNameOrder) THEN <<>>
    ELSE DuplicateErrorsOf(Overloads(functions, FunctionNameOrder[r]))
         \o DuplicateErrors(functions, r + 1)

\* the error for more than one constructor: located at the first, the others secondary
ConstructorErrors(functions) ==
    LET ctors == Overloads(functions, CheckedContractName)
    IN  IF Len(ctors) > 1
        THEN <<Error("DeclarationError", MsgMoreConstructors, <<ctors[1].start>>,
                     [k \in 1..(Len(ctors) - 1) |-> ctors[k + 1].start])>>
        ELSE <<>>

\* TypeChecker::checkContractDuplicateFunctions
CheckContractDuplicateFunctions ==
    /\ pc = "duplicates"
    /\ m_errors' = m_errors \o ConstructorErrors(checked.definedFunctions)
                            \o DuplicateErrors(checked.definedFunctions, 1)
    /\ pc' = "overrides"
    /\ UNCHANGED <<typeVars, mergeVars, gasVars, transferVars, stepVars, identifierVars, structVars, invocationVars, expressionVars, coreVars, resolverVars, registrarVars, checked, thrown, success, m_scopes, m_currentScope>>

\* the contracts handed to the duplicate check: up to MaxOverloads functions
DuplicateInputs ==
    UNION {[1..n -> {[name |-> nm, parameterTypes |-> pts, returns |-> 0] :
                        nm \in SeqRange(FunctionNameOrder), pts \in ParameterLists}]
           : n \in 0..MaxOverloads}

WithStarts(shapes) ==
    [i \in 1..Len(shapes) |->
        FunctionDefinition(shapes[i].name, shapes[i].parameterTypes, shapes[i].returns, i)]

InitDuplicates ==
    /\ IdleCore
    /\ IdleExpression
    /\ IdleInvocation
    /\ IdleStruct
    /\ IdleIdentifier
    /\ IdleSteps
    /\ IdleTransfer
    /\ IdleGas
    /\ IdleMerge
    /\ IdleResolver
    /\ IdleRegistrar
    /\ IdleTypes
    /\ m_errors = <<>>
    /\ m_scopes = (NoContract :> Container(NoContract, <<>>, <<>>))
    /\ m_currentScope = NoContract
    /\ \E shapes \in DuplicateInputs :
          checked = [name |-> CheckedContractName, definedFunctions |-> WithStarts(shapes)]
    /\ pc = "duplicates"
    /\ thrown = FALSE
    /\ success = "none"

NextDuplicates == CheckContractDuplicateFunctions

SpecDuplicates == InitDuplicates /\ [][NextDuplicates]_vars

\* C10: the duplicate check appends 'Function with same name and arguments defined
\* twice.' for a pair (f_i, f_j), i < j, exactly if the two have the same name and
\* equal argument types, once per pair, located at f_j with f_i as the other
\* declaration; same-named functions with different argument types give no error.
C10_DuplicatesExactly ==
    [][CheckContractDuplicateFunctions =>
          LET fs == checked.definedFunctions
              new == SubSeq(m_errors', Len(m_errors) + 1, Len(m_errors'))
              twice == {k \in 1..Len(new) : new[k].msg = MsgDefinedTwice}
              clashing == {p \in (1..Len(fs)) \X (1..Len(fs)) :
                              /\ p[1] < p[2]
                              /\ fs[p[1]].name = fs[p[2]].name
                              /\ hasEqualArgumentTypes(fs[p[1]], fs[p[2]])}
          IN  /\ \A i \in 1..Len(fs), j \in 1..Len(fs) :
                    i < j =>
                       ((\E k \in twice : new[k].loc = <<fs[j].start>> /\ new[k].sec = <<fs[i].start>>)
                          <=> <<i, j>> \in clashing)
              /\ Cardinality(twice) = Cardinality(clashing)
              /\ \A k \in twice :
                    /\ new[k].type = "DeclarationError"
                    /\ \E q \in clashing : new[k].loc = <<fs[q[2]].start>> /\ new[k].sec = <<fs[q[1]].start>>
              /\ \A k \in 1..Len(new) : new[k].msg \in {MsgDefinedTwice, MsgMoreConstructors}
              /\ SubSeq(m_errors', 1, Len(m_errors)) = m_errors]_vars

\* three overloads of one name: two with equal argument types, the third different
C10_Witness ==
    /\ pc = "overrides"
    /\ Len(checked.definedFunctions) = 3
    /\ \E k \in 1..Len(m_errors) : m_errors[k].msg = MsgDefinedTwice
    /\ \E i \in 1..3, j \in 1..3 :
          /\ i < j
          /\ checked.definedFunctions[i].name = checked.definedFunctions[j].name
          /\ ~hasEqualArgumentTypes(checked.definedFunctions[i], checked.definedFunctions[j])
    /\ Cardinality({k \in 1..Len(m_errors) : m_errors[k].msg = MsgDefinedTwice}) = 1

(***************************************************************************)
(* TypeChecker::checkTypeRequirements and visit(ContractDefinition)         *)
(***************************************************************************)
\* The visits of the nodes inside the contract (structs, inheritance specifiers, state
\* variables, events, modifiers, functions) and the contract-level checks that read
\* other contracts end in one of these ways: nothing recorded, a TypeError recorded
\* by typeError, a Warning recorded, or fatalTypeError. The list is capped at
\* MaxErrors entries.
SubVisit(next, outcomes, loc, msgError, msgFatal, msgWarning) ==
    \E outcome \in outcomes :
        /\ outcome # "ok" => Len(m_errors) < MaxErrors
        /\ CASE outcome = "ok" -> UNCHANGED <<m_errors, thrown>> /\ pc' = next
             [] outcome = "typeError" ->
                   /\ m_errors' = typeError(m_errors, loc, msgError)
                   /\ pc' = next
                   /\ UNCHANGED thrown
             [] outcome = "warning" ->
                   /\ m_errors' = warning(m_errors, loc, msgWarning)
                   /\ pc' = next
                   /\ UNCHANGED thrown
             [] outcome = "fatal" ->
                   /\ m_errors' = fatalTypeError(m_errors, loc, msgFatal)
                   /\ thrown' = TRUE
                   /\ pc' = "unwinding"
        /\ UNCHANGED <<typeVars, mergeVars, gasVars, transferVars, stepVars, identifierVars, structVars, invocationVars, expressionVars, coreVars, resolverVars, registrarVars, checked, success, m_scopes, m_currentScope>>

\* NameAndTypeResolver::reportTypeError / reportDeclarationError
reportTypeError(errors, e) == Append(errors, e)
reportDeclarationError(errors, loc, msg) ==
    Append(errors, Error("DeclarationError", msg, loc, NoLocation))

\* reportFatalTypeError / reportFatalDeclarationError: the error list as the thrown
\* FatalError leaves it
reportFatalTypeError(errors, e) == reportTypeError(errors, e)
reportFatalDeclarationError(errors, loc, msg) == reportDeclarationError(errors, loc, msg)

\* DeclarationRegistrationHelper::fatalDeclarationError, which no code path calls
fatalDeclarationError(errors, loc, msg) == declarationError(errors, loc, msg, NoLocation)

MsgFunctionType == "Function type can not be used in this context"

\* registerDeclarations for the source unit of the contract: the registrar records
\* 'Identifier already declared.' without raising and nothing in it raises FatalError
RegisterDeclarationsPass ==
    /\ pc = "registerDeclarations"
    /\ \/ UNCHANGED m_errors
       \/ /\ Len(m_errors) < MaxErrors
          /\ m_errors' = declarationError(m_errors, <<1>>, MsgAlreadyDeclared, <<0>>)
    /\ pc' = "resolveNamesAndTypes"
    /\ UNCHANGED <<typeVars, mergeVars, gasVars, transferVars, stepVars, identifierVars, structVars, invocationVars, expressionVars, coreVars, resolverVars, registrarVars, checked, thrown, success, m_scopes, m_currentScope>>

\* resolveNamesAndTypes for the contract, up to its catch: it runs through, or one of
\* its reportFatal* calls raises FatalError
ResolveNamesAndTypesPass ==
    /\ pc = "resolveNamesAndTypes"
    /\ \/ /\ pc' = "structs"
          /\ UNCHANGED <<m_errors, thrown>>
       \/ /\ Len(m_errors) < MaxErrors
          /\ \E msg \in {MsgContractExpected, MsgBasePrecede, MsgLinearization} :
                m_errors' = reportFatalTypeError(m_errors, Error("TypeError", msg, <<0>>, NoLocation))
          /\ thrown' = TRUE
          /\ pc' = "resolverUnwinding"
       \/ /\ Len(m_errors) < MaxErrors
          /\ m_errors' = reportFatalDeclarationError(m_errors, <<0>>, MsgFunctionType)
          /\ thrown' = TRUE
          /\ pc' = "resolverUnwinding"
    /\ UNCHANGED <<typeVars, mergeVars, gasVars, transferVars, stepVars, identifierVars, structVars, invocationVars, expressionVars, coreVars, resolverVars, registrarVars, checked, success, m_scopes, m_currentScope>>

\* catch (FatalError const& _e) { return false; } of resolveNamesAndTypes
CatchInResolveNamesAndTypes ==
    /\ pc = "resolverUnwinding"
    /\ pc' = "resolveFailed"
    /\ success' = "false"
    /\ UNCHANGED <<typeVars, mergeVars, gasVars, transferVars, stepVars, identifierVars, structVars, invocationVars, expressionVars, coreVars, resolverVars, registrarVars, checked, thrown, m_errors, m_scopes, m_currentScope>>

\* the visit of the defined structs continues with the duplicate check
VisitDefinedStructsThenDuplicates ==
    /\ pc = "structs"
    /\ SubVisit("duplicates", {"ok", "typeError", "fatal"}, <<1>>,
                "Type cannot be used in struct.", "Recursive struct definition.", "")

\* ASTNode::listAccept(_contract.definedStructs(), *this)
VisitDefinedStructs ==
    /\ pc = "structs"
    /\ SubVisit("baseContracts", {"ok", "typeError", "fatal"}, <<1>>,
                "Type cannot be used in struct.", "Recursive struct definition.", "")

\* ASTNode::listAccept(_contract.baseContracts(), *this)
VisitBaseContracts ==
    /\ pc = "baseContracts"
    /\ SubVisit("duplicates", {"ok", "typeError", "fatal"}, <<2>>,
                "Libraries cannot be inherited from.", "Invalid literal value.", "")

CheckContractIllegalOverrides ==
    /\ pc = "overrides"
    /\ SubVisit("abstractFunctions", {"ok", "typeError"}, <<4>>,
                "Override changes extended function signature.", "", "")

CheckContractAbstractFunctions ==
    /\ pc = "abstractFunctions"
    /\ SubVisit("abstractConstructors", {"ok", "typeError"}, <<5>>,
                "Redeclaring an already implemented function as abstract", "", "")

CheckContractAbstractConstructors ==
    /\ pc = "abstractConstructors"
    /\ SubVisit("fallback", {"ok"}, <<6>>, "", "", "")

\* the loop over the defined functions that allows one fallback function, without parameters
RECURSIVE FallbackErrors(_, _, _)
FallbackErrors(functions, i, seen) ==
    IF i > Len(functions) THEN <<>>
    ELSE IF functions[i].name # "" THEN FallbackErrors(functions, i + 1, seen)
    ELSE IF seen
         THEN <<Error("DeclarationError", MsgOneFallback, NoLocation, NoLocation)>>
              \o FallbackErrors(functions, i + 1, seen)
         ELSE (IF functions[i].parameterTypes # <<>>
               THEN <<Error("TypeError", MsgFallbackParameters, <<functions[i].start>>, NoLocation)>>
               ELSE <<>>)
              \o FallbackErrors(functions, i + 1, TRUE)

\* _contract.constructor() with a non-empty returns directive
ConstructorReturnErrors(functions) ==
    LET ctors == SelectSeq(functions, isConstructor)
    IN  IF ctors # <<>> /\ ctors[1].returns > 0
        THEN <<Error("TypeError", MsgConstructorReturns, <<ctors[1].start>>, NoLocation)>>
        ELSE <<>>

CheckConstructorAndFallback ==
    /\ pc = "fallback"
    /\ m_errors' = m_errors \o ConstructorReturnErrors(checked.definedFunctions)
                            \o FallbackErrors(checked.definedFunctions, 1, FALSE)
    /\ pc' = "stateVariables"
    /\ UNCHANGED <<typeVars, mergeVars, gasVars, transferVars, stepVars, identifierVars, structVars, invocationVars, expressionVars, coreVars, resolverVars, registrarVars, checked, thrown, success, m_scopes, m_currentScope>>

VisitStateVariables ==
    /\ pc = "stateVariables"
    /\ SubVisit("events", {"ok", "typeError", "fatal"}, <<8>>,
                "Illegal use of \"constant\" specifier.", "Assignment necessary for type detection.", "")

VisitEvents ==
    /\ pc = "events"
    /\ SubVisit("modifiers", {"ok", "typeError"}, <<9>>,
                "More than 3 indexed arguments for event.", "", "")

VisitFunctionModifiers ==
    /\ pc = "modifiers"
    /\ SubVisit("functions", {"ok", "typeError", "fatal"}, <<10>>,
                "Return arguments not allowed.", "Unable to determine overloaded type.", "")

VisitDefinedFunctions ==
    /\ pc = "functions"
    /\ SubVisit("externalClashes", {"ok", "typeError", "warning", "fatal"}, <<11>>,
                "Type is required to live outside storage.",
                "No candidates for overload resolution found.",
                "Uninitialized storage pointer.")

CheckContractExternalTypeClashes ==
    /\ pc = "externalClashes"
    /\ SubVisit("hashCollisions", {"ok", "typeError"}, <<12>>,
                "Function overload clash during conversion to external types for arguments.", "", "")

CheckHashCollisions ==
    /\ pc = "hashCollisions"
    /\ SubVisit("library", {"ok", "typeError"}, <<13>>,
                "Function signature hash collision", "", "")

CheckLibraryRequirements ==
    /\ pc = "library"
    /\ SubVisit("return", {"ok", "typeError"}, <<14>>,
                "Library is not allowed to inherit.", "", "")

\* catch (FatalError const&): thrown again if nothing was recorded
CatchFatalError ==
    /\ pc = "unwinding"
    /\ pc' = IF m_errors = <<>> THEN "rethrown" ELSE "return"
    /\ UNCHANGED <<typeVars, mergeVars, gasVars, transferVars, stepVars, identifierVars, structVars, invocationVars, expressionVars, coreVars, resolverVars, registrarVars, checked, thrown, success, m_errors, m_scopes,
                   m_currentScope>>

\* success only if the list is empty
NoErrorAtAll(errors) == errors = <<>>

\* the loop over m_errors: success unless an entry is no Warning
OnlyWarnings(errors) == \A i \in 1..Len(errors) : errors[i].type = "Warning"

ReturnSuccess ==
    /\ pc = "return"
    /\ success' = IF OnlyWarnings(m_errors) THEN "true" ELSE "false"
    /\ pc' = "returned"
    /\ UNCHANGED <<typeVars, mergeVars, gasVars, transferVars, stepVars, identifierVars, structVars, invocationVars, expressionVars, coreVars, resolverVars, registrarVars, checked, thrown, m_errors, m_scopes, m_currentScope>>

\* the shapes of the functions of the contract under check
CheckedShapes ==
    {[name |-> nm, parameterTypes |-> pts, returns |-> r] :
        nm \in SeqRange(FunctionNameOrder), pts \in {<<>>, <<"uint256">>}, r \in {0, 1}}

CheckedInputs ==
    UNION {{shapes \in [1..n -> CheckedShapes] :
               \A i \in 1..n : shapes[i].returns > 0 => shapes[i].name = CheckedContractName}
           : n \in 0..MaxCheckedFunctions}

\* diagnostics left in the list by the check of an earlier contract
PriorErrors ==
    {<<>>, <<Error("Warning", "Uninitialized storage pointer.", <<0>>, NoLocation)>>}

InitCheck ==
    /\ IdleCore
    /\ IdleExpression
    /\ IdleInvocation
    /\ IdleStruct
    /\ IdleIdentifier
    /\ IdleSteps
    /\ IdleTransfer
    /\ IdleGas
    /\ IdleMerge
    /\ IdleResolver
    /\ IdleRegistrar
    /\ IdleTypes
    /\ m_errors \in PriorErrors
    /\ m_scopes = (NoContract :> Container(NoContract, <<>>, <<>>))
    /\ m_currentScope = NoContract
    /\ \E shapes \in CheckedInputs :
          checked = [name |-> CheckedContractName, definedFunctions |-> WithStarts(shapes)]
    /\ pc = "registerDeclarations"
    /\ thrown = FALSE
    /\ success = "none"

NextCheck ==
    \/ RegisterDeclarationsPass
    \/ ResolveNamesAndTypesPass
    \/ CatchInResolveNamesAndTypes
    \/ VisitDefinedStructs
    \/ VisitBaseContracts
    \/ CheckContractDuplicateFunctions
    \/ CheckContractIllegalOverrides
    \/ CheckContractAbstractFunctions
    \/ CheckContractAbstractConstructors
    \/ CheckConstructorAndFallback
    \/ VisitStateVariables
    \/ VisitEvents
    \/ VisitFunctionModifiers
    \/ VisitDefinedFunctions
    \/ CheckContractExternalTypeClashes
    \/ CheckHashCollisions
    \/ CheckLibraryRequirements
    \/ CatchFatalError
    \/ ReturnSuccess

SpecCheck == InitCheck /\ [][NextCheck]_vars

\* C8: checkTypeRequirements returns true exactly if the error list holds nothing but
\* Warnings when it returns, also after a caught FatalError.
C8_SuccessIffOnlyWarnings ==
    pc = "returned" =>
        /\ success \in {"true", "false"}
        /\ success = "true" <=> \A i \in 1..Len(m_errors) : m_errors[i].type = "Warning"

\* a return after a caught FatalError, with a Warning and an error in the list
C8_Witness ==
    /\ pc = "returned"
    /\ thrown
    /\ success = "false"
    /\ \E i \in 1..Len(m_errors) : m_errors[i].type = "Warning"

\* C9: a FatalError is raised by the resolver or the type checker only right after
\* its diagnostic was appended to the error list (the registrar raises none), so the
\* list is not empty wherever a FatalError is caught and checkTypeRequirements never
\* throws it again.
C9_FatalAfterDiagnostic ==
    [][/\ (thrown' /\ ~thrown) =>
             /\ Len(m_errors') = Len(m_errors) + 1
             /\ SubSeq(m_errors', 1, Len(m_errors)) = m_errors
             /\ m_errors'[Len(m_errors')].type \in {"TypeError", "DeclarationError"}
             /\ pc' \in {"unwinding", "resolverUnwinding"}
       /\ pc' \in {"unwinding", "resolverUnwinding"} => (thrown' /\ m_errors' # <<>>)
       /\ (pc = "registerDeclarations" => ~thrown')
       /\ pc' # "rethrown"]_vars

\* a FatalError of the type checker caught with its diagnostic as the only entry
C9_Witness ==
    /\ pc = "return"
    /\ thrown
    /\ Len(m_errors) = 1
    /\ m_errors[1].type = "TypeError"

(***************************************************************************)
(* The contract-level checks over the linearization (SpecInheritance)       *)
(***************************************************************************)
MaxChain == 2
MaxMembers == 2

\* linearizedBaseContracts of the contract under check, most derived first: contract k
\* is named ContractNames[k], inherits from contract k + 1 (with constructor arguments
\* if arguments[k]) and holds the members owner assigns to it, in their order
Linearization(n, members, owner, arguments) ==
    [k \in 1..n |->
        LET mine == SelectSeq([i \in 1..Len(members) |->
                                  [kind |-> members[i].kind, name |-> members[i].name,
                                   parameterTypes |-> members[i].parameterTypes,
                                   returnTypes |-> members[i].returnTypes,
                                   visibility |-> members[i].visibility,
                                   isDeclaredConst |-> members[i].isDeclaredConst,
                                   isImplemented |-> members[i].isImplemented,
                                   modifiers |-> members[i].modifiers,
                                   isConstructor |-> (members[i].kind = "function"
                                                        /\ members[i].name = ContractNames[owner[i]]),
                                   contract |-> owner[i], start |-> i]],
                              LAMBDA m : m.contract = k)
        IN  [name |-> ContractNames[k],
             definedFunctions |-> SelectSeq(mine, LAMBDA m : m.kind = "function"),
             functionModifiers |-> SelectSeq(mine, LAMBDA m : m.kind = "modifier"),
             stateVariables |-> SelectSeq(mine, LAMBDA m : m.kind = "variable"),
             baseContracts |-> IF k < n
                               THEN <<[name |-> ContractNames[k + 1], arguments |-> arguments[k]]>>
                               ELSE <<>>]]

MsgOverrideSignature == "Override changes extended function signature."

\* only the visibility of the two functions is compared
OverrideChangesVisibilityOnly(overriding, function) ==
    overriding.visibility # function.visibility

\* overriding->visibility() != function->visibility() ||
\* overriding->isDeclaredConst() != function->isDeclaredConst() || overridingType != functionType
OverrideChanges(overriding, function) ==
    \/ overriding.visibility # function.visibility
    \/ overriding.isDeclaredConst # function.isDeclaredConst
    \/ overriding.parameterTypes # function.parameterTypes
    \/ overriding.returnTypes # function.returnTypes

\* The loops of checkContractIllegalOverrides from entry i of the visiting order on:
\* functions holds the functions stored so far, modifiers the modifier stored per name.
RECURSIVE IllegalOverrides(_, _, _, _)
IllegalOverrides(visits, i, functions, modifiers) ==
    IF i > Len(visits) THEN <<>>
    ELSE LET d == visits[i]
             sameName(seq) == SelectSeq(seq, LAMBDA x : x.name = d.name)
         IN  IF d.kind = "function"
             THEN IF d.isConstructor
                  THEN IllegalOverrides(visits, i + 1, functions, modifiers)
                  ELSE LET changed == SelectSeq(sameName(functions),
                                          LAMBDA o : hasEqualArgumentTypes(o, d) /\ OverrideChanges(o, d))
                       IN  (IF sameName(modifiers) # <<>>
                            THEN <<Error("TypeError", "Override changes function to modifier.",
                                         <<sameName(modifiers)[1].start>>, NoLocation)>>
                            ELSE <<>>)
                           \o [k \in 1..Len(changed) |->
                                  Error("TypeError", MsgOverrideSignature, <<changed[k].start>>, NoLocation)]
                           \o IllegalOverrides(visits, i + 1, Append(functions, d), modifiers)
             ELSE LET stored == sameName(modifiers)
                      override == IF stored = <<>> THEN d ELSE stored[1]
                  IN  (IF stored # <<>> /\ stored[1].parameterTypes # d.parameterTypes
                       THEN <<Error("TypeError", "Override changes modifier signature.", <<override.start>>, NoLocation)>>
                       ELSE <<>>)
                      \o (IF sameName(functions) # <<>>
                          THEN <<Error("TypeError", "Override changes modifier to function.", <<override.start>>, NoLocation)>>
                          ELSE <<>>)
                      \o IllegalOverrides(visits, i + 1, functions,
                                          IF stored = <<>> THEN Append(modifiers, d) ELSE modifiers)

\* the functions and then the modifiers of each contract of the list, in its order
RECURSIVE FunctionsThenModifiers(_)
FunctionsThenModifiers(contracts) ==
    IF contracts = <<>> THEN <<>>
    ELSE Head(contracts).definedFunctions \o Head(contracts).functionModifiers
         \o FunctionsThenModifiers(Tail(contracts))

\* TypeChecker::checkContractIllegalOverrides
checkContractIllegalOverrides ==
    /\ pc = "overrides"
    /\ m_errors' = m_errors \o IllegalOverrides(FunctionsThenModifiers(checked.linearizedBaseContracts),
                                                1, <<>>, <<>>)
    /\ pc' = "abstractFunctions"
    /\ UNCHANGED <<typeVars, mergeVars, gasVars, transferVars, stepVars, identifierVars, structVars, invocationVars, expressionVars, coreVars, resolverVars, registrarVars, checked, thrown, success, m_scopes, m_currentScope>>

MsgRedeclaredAbstract == "Redeclaring an already implemented function as abstract"

\* the flag of an equivalence class never changes after its first definition
ImplementedFlagKept(flag, function) == flag

\* the flag of an equivalence class after one more of its definitions was visited:
\* it->second stays true, or becomes true if (function->isImplemented())
ImplementedFlag(flag, function) == flag \/ function.isImplemented

\* The loop of checkContractAbstractFunctions from entry i of the visiting order (base
\* to derived) on; overloads holds one [function, implemented] per equivalence class.
RECURSIVE AbstractFunctions(_, _, _)
AbstractFunctions(visits, i, overloads) ==
    IF i > Len(visits) THEN [errors |-> <<>>, overloads |-> overloads]
    ELSE LET function == visits[i]
             found == {k \in 1..Len(overloads) :
                          /\ overloads[k].function.name = function.name
                          /\ hasEqualArgumentTypes(function, overloads[k].function)}
         IN  IF found = {}
             THEN AbstractFunctions(visits, i + 1,
                      Append(overloads, [function |-> function, implemented |-> function.isImplemented]))
             ELSE LET it == Min(found)
                      rest == AbstractFunctions(visits, i + 1,
                                  [overloads EXCEPT ![it].implemented = ImplementedFlag(@, function)])
                  IN  IF overloads[it].implemented /\ ~function.isImplemented
                      THEN [rest EXCEPT !.errors =
                               <<Error("TypeError", MsgRedeclaredAbstract, <<function.start>>, NoLocation)>> \o @]
                      ELSE rest

\* the defined functions of the contracts of the list, last contract first
RECURSIVE FunctionsBaseToDerived(_)
FunctionsBaseToDerived(contracts) ==
    IF contracts = <<>> THEN <<>>
    ELSE FunctionsBaseToDerived(Tail(contracts)) \o Head(contracts).definedFunctions

\* TypeChecker::checkContractAbstractFunctions
checkContractAbstractFunctions ==
    /\ pc = "abstractFunctions"
    /\ LET r == AbstractFunctions(FunctionsBaseToDerived(checked.linearizedBaseContracts), 1, <<>>)
       IN  /\ m_errors' = m_errors \o r.errors
           /\ checked' = IF \E k \in 1..Len(r.overloads) : ~r.overloads[k].implemented
                         THEN [checked EXCEPT !.isFullyImplemented = FALSE]
                         ELSE checked
    /\ pc' = "abstractConstructors"
    /\ UNCHANGED <<typeVars, mergeVars, gasVars, transferVars, stepVars, identifierVars, structVars, invocationVars, expressionVars, coreVars, resolverVars, registrarVars, thrown, success, m_scopes, m_currentScope>>

\* every base with a constructor needs arguments, whatever its parameters
NeedsArgumentsAnyConstructor(contract) ==
    SelectSeq(contract.definedFunctions, LAMBDA f : f.isConstructor) # <<>>

\* contract->constructor() exists and !constructor->parameters().empty()
NeedsArguments(contract) ==
    LET constructors == SelectSeq(contract.definedFunctions, LAMBDA f : f.isConstructor)
    IN  constructors # <<>> /\ constructors[1].parameterTypes # <<>>

\* argumentsNeeded of checkContractAbstractConstructors after its two loops
argumentsNeeded(bases) ==
    LET needed == {bases[k].name : k \in {j \in 2..Len(bases) : NeedsArguments(bases[j])}}
        constructorOf(k) == SelectSeq(bases[k].definedFunctions, LAMBDA f : f.isConstructor)
        byModifier == UNION {IF constructorOf(k) = <<>> THEN {}
                             ELSE constructorOf(k)[1].modifiers \cap SeqRange(ContractNames)
                             : k \in 1..Len(bases)}
        bySpecifier == {s.name : s \in {x \in UNION {SeqRange(bases[k].baseContracts) : k \in 1..Len(bases)} :
                                            x.arguments}}
    IN  (needed \ byModifier) \ bySpecifier

\* TypeChecker::checkContractAbstractConstructors
checkContractAbstractConstructors ==
    /\ pc = "abstractConstructors"
    /\ checked' = IF argumentsNeeded(checked.linearizedBaseContracts) # {}
                  THEN [checked EXCEPT !.isFullyImplemented = FALSE]
                  ELSE checked
    /\ pc' = "fallback"
    /\ UNCHANGED <<typeVars, mergeVars, gasVars, transferVars, stepVars, identifierVars, structVars, invocationVars, expressionVars, coreVars, resolverVars, registrarVars, thrown, success, m_errors, m_scopes, m_currentScope>>

\* The members a contract k of a linearization of n contracts may hold, by the check the
\* linearization is made for: functions and modifiers that override one another;
\* functions with and without implementation; constructors with and without parameters
\* that invoke bases (or the modifier m); functions and a state variable inside and
\* outside the external interface.
MemberShapes(family, k, n) ==
    LET F(name, parameterTypes, returnTypes, visibility, isDeclaredConst, isImplemented, modifiers) ==
            [kind |-> "function", name |-> name, parameterTypes |-> parameterTypes,
             returnTypes |-> returnTypes, visibility |-> visibility,
             isDeclaredConst |-> isDeclaredConst, isImplemented |-> isImplemented,
             modifiers |-> modifiers]
    IN  CASE family = "overriding" ->
                {F("f", <<>>, <<>>, "public", FALSE, TRUE, {}),
                 F("f", <<>>, <<>>, "internal", FALSE, TRUE, {}),
                 F("f", <<>>, <<>>, "public", TRUE, TRUE, {}),
                 F("f", <<>>, <<"bool">>, "public", FALSE, TRUE, {}),
                 F("f", <<"uint256">>, <<>>, "public", FALSE, TRUE, {})}
                \cup {F(ContractNames[c], <<>>, <<>>, IF c = k THEN "public" ELSE "internal",
                        FALSE, TRUE, {}) : c \in 1..n}
                \cup {[F("f", pts, <<>>, "internal", FALSE, TRUE, {}) EXCEPT !.kind = "modifier"] :
                         pts \in {<<>>, <<"uint256">>}}
          [] family = "abstract" ->
                {F(nm, pts, <<>>, "public", FALSE, impl, {}) :
                    nm \in {"f", ContractNames[k]}, pts \in {<<>>, <<"uint256">>}, impl \in BOOLEAN}
          [] family = "constructors" ->
                {F(ContractNames[k], pts, <<>>, "public", FALSE, TRUE, ms) :
                    pts \in {<<>>, <<"uint256">>},
                    ms \in SUBSET ({ContractNames[c] : c \in (k + 1)..n} \cup {"m"})}
          [] family = "external" ->
                {F("f", <<"address">>, <<>>, "public", FALSE, TRUE, {}),
                 F("f", <<"contract C">>, <<>>, "public", FALSE, TRUE, {}),
                 F("f", <<"address">>, <<>>, "internal", FALSE, TRUE, {}),
                 F("g", <<>>, <<>>, "public", FALSE, TRUE, {}),
                 F("h", <<>>, <<>>, "external", FALSE, TRUE, {}),
                 [F("g", <<>>, <<"uint256">>, "public", FALSE, TRUE, {}) EXCEPT !.kind = "variable"]}

\* the contract under check is the head of a linearization of up to MaxChain contracts
\* with up to MaxMembers members in all, drawn from one of the families (at most one
\* constructor per contract in the family of the constructors); sha3 gives the first
\* four bytes of the hash of each external signature, any of two values
CheckedLinearization(families) ==
    \E family \in families, n \in 1..MaxChain, len \in 0..MaxMembers :
        \E owner \in {o \in [1..len -> 1..n] : \A i \in 1..len, j \in 1..len : i <= j => o[i] <= o[j]} :
            \E members \in [1..len -> UNION {MemberShapes(family, k, n) : k \in 1..n}] :
                /\ \A i \in 1..len : members[i] \in MemberShapes(family, owner[i], n)
                /\ family = "constructors" => \A i \in 1..len, j \in 1..len : i < j => owner[i] < owner[j]
                /\ \E arguments \in [1..(n - 1) -> IF family = "constructors" THEN BOOLEAN ELSE {FALSE}],
                      sha3 \in [{"f(address)", "g()", "h()"} ->
                                   IF family = "external" THEN {"c0", "c1"} ELSE {"c0"}] :
                      checked = [name |-> ContractNames[1],
                                 linearizedBaseContracts |-> Linearization(n, members, owner, arguments),
                                 isFullyImplemented |-> TRUE,
                                 sha3 |-> sha3]

InitInheritance ==
    /\ IdleCore
    /\ IdleExpression
    /\ IdleInvocation
    /\ IdleStruct
    /\ IdleIdentifier
    /\ IdleSteps
    /\ IdleTransfer
    /\ IdleGas
    /\ IdleMerge
    /\ IdleResolver
    /\ IdleRegistrar
    /\ IdleTypes
    /\ m_errors = <<>>
    /\ m_scopes = (NoContract :> Container(NoContract, <<>>, <<>>))
    /\ m_currentScope = NoContract
    /\ CheckedLinearization({"overriding", "abstract", "constructors"})
    /\ pc = "overrides"
    /\ thrown = FALSE
    /\ success = "none"

NextInheritance ==
    \/ checkContractIllegalOverrides
    \/ checkContractAbstractFunctions
    \/ checkContractAbstractConstructors

SpecInheritance == InitInheritance /\ [][NextInheritance]_vars

(***************************************************************************)
(* Properties of the contract-level checks (SpecInheritance)               *)
(***************************************************************************)
\* the defined functions of the linearization in visiting order, derived to base
ChainFunctions(contracts) ==
    SelectSeq(FunctionsThenModifiers(contracts), LAMBDA d : d.kind = "function")

\* the errors the step being taken appends
AppendedErrors(before, after) == SubSeq(after, Len(before) + 1, Len(after))

\* C11: for non-constructor functions f visited before g with the same name and equal
\* argument types, checkContractIllegalOverrides records 'Override changes extended
\* function signature.' at f exactly if the two differ in visibility, constness or
\* function type (one error per such pair); constructors are never compared or recorded.
C11_OverrideErrors ==
    [][checkContractIllegalOverrides =>
          LET fs == ChainFunctions(checked.linearizedBaseContracts)
              new == AppendedErrors(m_errors, m_errors')
              recorded == {k \in 1..Len(new) : new[k].msg = MsgOverrideSignature}
              changedBy(p) == {q \in 1..Len(fs) :
                                  /\ p < q
                                  /\ ~fs[p].isConstructor /\ ~fs[q].isConstructor
                                  /\ fs[p].name = fs[q].name
                                  /\ hasEqualArgumentTypes(fs[p], fs[q])
                                  /\ \/ fs[p].visibility # fs[q].visibility
                                     \/ fs[p].isDeclaredConst # fs[q].isDeclaredConst
                                     \/ <<fs[p].parameterTypes, fs[p].returnTypes>>
                                           # <<fs[q].parameterTypes, fs[q].returnTypes>>}
          IN  /\ \A p \in 1..Len(fs) :
                    Cardinality({k \in recorded : new[k].loc = <<fs[p].start>>})
                        = Cardinality(changedBy(p))
              /\ \A k \in recorded :
                    /\ new[k].type = "TypeError"
                    /\ \E p \in 1..Len(fs) : new[k].loc = <<fs[p].start>> /\ ~fs[p].isConstructor
              /\ SubSeq(m_errors', 1, Len(m_errors)) = m_errors]_vars

\* a function of the contract under check recorded for the function of a base that it
\* overrides with another visibility, constness or return type
C11_Witness ==
    /\ pc = "abstractFunctions"
    /\ Len(checked.linearizedBaseContracts) = 2
    /\ \E f \in SeqRange(checked.linearizedBaseContracts[1].definedFunctions) :
       \E g \in SeqRange(checked.linearizedBaseContracts[2].definedFunctions) :
          /\ f.name = g.name
          /\ ~f.isConstructor /\ ~g.isConstructor
          /\ f.parameterTypes = g.parameterTypes
          /\ f.visibility = g.visibility
          /\ f.isDeclaredConst # g.isDeclaredConst
          /\ m_errors = <<Error("TypeError", MsgOverrideSignature, <<f.start>>, NoLocation)>>

\* C12: checkContractAbstractFunctions marks the contract not fully implemented exactly
\* if some function of the linearization has no implemented definition with its name
\* and equal argument types anywhere in the linearization.
C12_AbstractIffClassUnimplemented ==
    [][checkContractAbstractFunctions =>
          LET fs == ChainFunctions(checked.linearizedBaseContracts)
              classUnimplemented ==
                  \E p \in 1..Len(fs) :
                      \A q \in 1..Len(fs) :
                          (fs[q].name = fs[p].name /\ hasEqualArgumentTypes(fs[p], fs[q]))
                              => ~fs[q].isImplemented
          IN  /\ checked.isFullyImplemented
              /\ checked'.isFullyImplemented = ~classUnimplemented
              /\ checked'.linearizedBaseContracts = checked.linearizedBaseContracts]_vars

\* the contract under check declares a function of a base again without implementation
\* and stays fully implemented
C12_Witness ==
    /\ pc = "abstractConstructors"
    /\ checked.isFullyImplemented
    /\ Len(checked.linearizedBaseContracts) = 2
    /\ \E f \in SeqRange(checked.linearizedBaseContracts[1].definedFunctions) :
       \E g \in SeqRange(checked.linearizedBaseContracts[2].definedFunctions) :
          /\ f.name = g.name
          /\ f.parameterTypes = g.parameterTypes
          /\ ~f.isImplemented /\ g.isImplemented

\* C13: checkContractAbstractConstructors marks the contract not fully implemented
\* exactly if a proper base whose constructor has parameters is given arguments by no
\* contract of the linearization: by no inheritance specifier with arguments and by no
\* modifier invocation of a constructor that names the base.
C13_AbstractIffArgumentsMissing ==
    [][checkContractAbstractConstructors =>
          LET bases == checked.linearizedBaseContracts
              constructorOf(k) == SelectSeq(bases[k].definedFunctions, LAMBDA f : f.isConstructor)
              given(b) ==
                  \E k \in 1..Len(bases) :
                      \/ \E i \in 1..Len(bases[k].baseContracts) :
                            bases[k].baseContracts[i].name = b /\ bases[k].baseContracts[i].arguments
                      \/ constructorOf(k) # <<>> /\ b \in constructorOf(k)[1].modifiers
              missing ==
                  \E k \in 2..Len(bases) :
                      /\ constructorOf(k) # <<>>
                      /\ Len(constructorOf(k)[1].parameterTypes) >= 1
                      /\ ~given(bases[k].name)
          IN  /\ checked'.isFullyImplemented = (checked.isFullyImplemented /\ ~missing)
              /\ checked'.linearizedBaseContracts = checked.linearizedBaseContracts
              /\ m_errors' = m_errors]_vars

\* a base whose constructor has a parameter, with the arguments given by a modifier
\* invocation of the constructor of the contract under check
C13_Witness ==
    /\ pc = "fallback"
    /\ checked.isFullyImplemented
    /\ Len(checked.linearizedBaseContracts) = 2
    /\ ~checked.linearizedBaseContracts[1].baseContracts[1].arguments
    /\ \E f \in SeqRange(checked.linearizedBaseContracts[1].definedFunctions) :
       \E g \in SeqRange(checked.linearizedBaseContracts[2].definedFunctions) :
          /\ f.isConstructor /\ g.isConstructor
          /\ g.parameterTypes # <<>>
          /\ g.name \in f.modifiers

(***************************************************************************)
(* The external interface of the contract under check (SpecInterface)      *)
(***************************************************************************)
\* Declaration::isPartOfExternalInterface for functions and state variables
isPartOfExternalInterface(d) ==
    IF d.kind = "function"
    THEN d.visibility \in {"public", "external"} /\ ~d.isConstructor /\ d.name # ""
    ELSE d.kind = "variable" /\ d.visibility = "public"

\* FunctionType::externalSignature: the name and the external types of the parameters,
\* a contract type being passed as address
externalSignature(d) ==
    LET externalType(t) == IF t = "contract C" THEN "address" ELSE t
        RECURSIVE Joined(_)
        Joined(ts) == IF ts = <<>> THEN ""
                      ELSE IF Len(ts) = 1 THEN externalType(ts[1])
                      ELSE externalType(ts[1]) \o "," \o Joined(Tail(ts))
    IN  d.name \o "(" \o Joined(d.parameterTypes) \o ")"

\* the functions and then the state variables of each contract of the list, in its order
RECURSIVE FunctionsThenVariables(_)
FunctionsThenVariables(contracts) ==
    IF contracts = <<>> THEN <<>>
    ELSE Head(contracts).definedFunctions \o Head(contracts).stateVariables
         \o FunctionsThenVariables(Tail(contracts))

\* the clash error is located at the declaration stored first
ClashLocationFirst(first, second) == <<first.start>>

\* typeError(*it.second[j].first, ...): the declaration stored later
ClashLocation(first, second) == <<second.start>>

\* The loops over externalDeclarations: for every external signature (in the order of
\* the map), the pairs i < j of its declarations whose argument types are not equal.
ExternalTypeClashes(contracts) ==
    LET declarations == SelectSeq(FunctionsThenVariables(contracts), isPartOfExternalInterface)
        signatures == {externalSignature(declarations[i]) : i \in 1..Len(declarations)}
        RECURSIVE Clashes(_, _, _)
        Clashes(same, i, j) ==
            IF i > Len(same) THEN <<>>
            ELSE IF j > Len(same) THEN Clashes(same, i + 1, i + 2)
            ELSE (IF ~hasEqualArgumentTypes(same[i], same[j])
                  THEN <<Error("TypeError",
                               "Function overload clash during conversion to external types for arguments.",
                               ClashLocation(same[i], same[j]), NoLocation)>>
                  ELSE <<>>)
                 \o Clashes(same, i, j + 1)
        \* std::map<string, ...> iterates the signatures in this order
        order == <<"f(address)", "g()", "h()">>
        RECURSIVE BySignature(_)
        BySignature(k) ==
            IF k > Len(order) THEN <<>>
            ELSE Clashes(SelectSeq(declarations, LAMBDA d : externalSignature(d) = order[k]), 1, 2)
                 \o BySignature(k + 1)
    IN  BySignature(1)

\* TypeChecker::checkContractExternalTypeClashes
checkContractExternalTypeClashes ==
    /\ pc = "externalClashes"
    /\ m_errors' = m_errors \o ExternalTypeClashes(checked.linearizedBaseContracts)
    /\ pc' = "hashCollisions"
    /\ UNCHANGED <<typeVars, mergeVars, gasVars, transferVars, stepVars, identifierVars, structVars, invocationVars, expressionVars, coreVars, resolverVars, registrarVars, checked, thrown, success, m_scopes, m_currentScope>>

\* ContractDefinition::interfaceFunctionList from entry i of the visiting order on: the
\* declarations listed, each with the first four bytes of the hash of its signature
RECURSIVE interfaceFunctionList(_, _, _, _, _)
interfaceFunctionList(visits, i, functionsSeen, signaturesSeen, sha3) ==
    IF i > Len(visits) THEN <<>>
    ELSE LET d == visits[i]
             entry == [hash |-> sha3[externalSignature(d)], declaration |-> d]
         IN  IF d.kind = "function"
             THEN IF isPartOfExternalInterface(d) /\ externalSignature(d) \notin signaturesSeen
                  THEN <<entry>> \o interfaceFunctionList(visits, i + 1, functionsSeen \cup {d.name},
                                        signaturesSeen \cup {externalSignature(d)}, sha3)
                  ELSE interfaceFunctionList(visits, i + 1, functionsSeen, signaturesSeen, sha3)
             ELSE IF d.name \notin functionsSeen /\ isPartOfExternalInterface(d)
                  THEN <<entry>> \o interfaceFunctionList(visits, i + 1, functionsSeen \cup {d.name},
                                        signaturesSeen, sha3)
                  ELSE interfaceFunctionList(visits, i + 1, functionsSeen, signaturesSeen, sha3)

\* only entries with the same signature as an earlier entry are reported
HashCollisionsOfEqualSignatures(list, loc) ==
    LET colliding == {i \in 1..Len(list) :
                         \E j \in 1..(i - 1) :
                             externalSignature(list[j].declaration) = externalSignature(list[i].declaration)}
    IN  [k \in 1..Cardinality(colliding) |->
            Error("TypeError", "Function signature hash collision for "
                                  \o externalSignature(list[CHOOSE i \in colliding :
                                         Cardinality({j \in colliding : j < i}) = k - 1].declaration),
                  loc, NoLocation)]

\* the loop over interfaceFunctionList in visit(ContractDefinition): an error for every
\* entry whose hash an earlier entry has
HashCollisions(list, loc) ==
    LET colliding == {i \in 1..Len(list) : \E j \in 1..(i - 1) : list[j].hash = list[i].hash}
    IN  [k \in 1..Cardinality(colliding) |->
            Error("TypeError", "Function signature hash collision for "
                                  \o externalSignature(list[CHOOSE i \in colliding :
                                         Cardinality({j \in colliding : j < i}) = k - 1].declaration),
                  loc, NoLocation)]

\* visit(ContractDefinition): check for hash collisions in function signatures
checkHashCollisions ==
    /\ pc = "hashCollisions"
    /\ m_errors' = m_errors \o HashCollisions(
                       interfaceFunctionList(FunctionsThenVariables(checked.linearizedBaseContracts),
                                             1, {}, {}, checked.sha3),
                       <<0>>)
    /\ pc' = "library"
    /\ UNCHANGED <<typeVars, mergeVars, gasVars, transferVars, stepVars, identifierVars, structVars, invocationVars, expressionVars, coreVars, resolverVars, registrarVars, checked, thrown, success, m_scopes, m_currentScope>>

InitInterface ==
    /\ IdleCore
    /\ IdleExpression
    /\ IdleInvocation
    /\ IdleStruct
    /\ IdleIdentifier
    /\ IdleSteps
    /\ IdleTransfer
    /\ IdleGas
    /\ IdleMerge
    /\ IdleResolver
    /\ IdleRegistrar
    /\ IdleTypes
    /\ m_errors = <<>>
    /\ m_scopes = (NoContract :> Container(NoContract, <<>>, <<>>))
    /\ m_currentScope = NoContract
    /\ CheckedLinearization({"external"})
    /\ pc = "functions"
    /\ thrown = FALSE
    /\ success = "none"

NextInterface ==
    \/ VisitDefinedFunctions
    \/ checkContractExternalTypeClashes
    \/ checkHashCollisions
    \/ CheckLibraryRequirements
    \/ CatchFatalError
    \/ ReturnSuccess

SpecInterface == InitInterface /\ [][NextInterface]_vars

(***************************************************************************)
(* Properties of the external interface checks (SpecInterface)             *)
(***************************************************************************)
\* the selectors of interfaceFunctionList() of the contract under check
InterfaceSelectors ==
    LET list == interfaceFunctionList(FunctionsThenVariables(checked.linearizedBaseContracts),
                                      1, {}, {}, checked.sha3)
    IN  [i \in 1..Len(list) |-> list[i].hash]

SelectorsDistinct ==
    \A i \in 1..Len(InterfaceSelectors), j \in 1..Len(InterfaceSelectors) :
        i # j => InterfaceSelectors[i] # InterfaceSelectors[j]

HashCollisionRecorded ==
    \E k \in 1..Len(m_errors) :
        /\ m_errors[k].type = "TypeError"
        /\ m_errors[k].msg \in {"Function signature hash collision for " \o sig :
                                   sig \in {"f(address)", "g()", "h()"}}

C15_ExternalClashes ==
    [][checkContractExternalTypeClashes =>
          LET ds == SelectSeq(FunctionsThenVariables(checked.linearizedBaseContracts),
                              isPartOfExternalInterface)
              new == AppendedErrors(m_errors, m_errors')
              clashes == {k \in 1..Len(new) :
                             new[k].msg = "Function overload clash during conversion to external types for arguments."}
              clashingWith(j) == {i \in 1..(j - 1) :
                                     /\ externalSignature(ds[i]) = externalSignature(ds[j])
                                     /\ ~hasEqualArgumentTypes(ds[i], ds[j])}
          IN  /\ \A j \in 1..Len(ds) :
                    Cardinality({k \in clashes : new[k].loc = <<ds[j].start>>})
                        = Cardinality(clashingWith(j))
              /\ \A k \in 1..Len(new) :
                    /\ k \in clashes
                    /\ new[k].type = "TypeError"
                    /\ \E j \in 1..Len(ds) : new[k].loc = <<ds[j].start>>
              /\ SubSeq(m_errors', 1, Len(m_errors)) = m_errors]_vars

\* a function taking a contract in the derived contract and one taking an address in the
\* base: the error is recorded at the function of the base
C15_Witness ==
    /\ pc = "hashCollisions"
    /\ Len(checked.linearizedBaseContracts) = 2
    /\ \E f \in SeqRange(checked.linearizedBaseContracts[1].definedFunctions) :
       \E g \in SeqRange(checked.linearizedBaseContracts[2].definedFunctions) :
          /\ isPartOfExternalInterface(f) /\ isPartOfExternalInterface(g)
          /\ f.parameterTypes = <<"contract C">>
          /\ g.parameterTypes = <<"address">>
          /\ \E k \in 1..Len(m_errors) :
                /\ m_errors[k].loc = <<g.start>>
                /\ m_errors[k].msg = "Function overload clash during conversion to external types for arguments."

(***************************************************************************)
(* The order of the steps of visit(ContractDefinition) (SpecCheck)          *)
(***************************************************************************)
\* C16: visit(ContractDefinition) takes its steps in the order structs, base-constructor
\* calls, duplicates, overrides, abstract functions, abstract constructors, fallback,
\* state variables, events, modifiers, functions, external clashes, selector collisions,
\* library; each step is followed by the next one or by the unwinding of a FatalError,
\* so without a FatalError every step runs exactly once and the bodies of modifiers and
\* functions are visited after the four contract-level checks.
C16_FixedOrder ==
    [][LET order == <<"structs", "baseContracts", "duplicates", "overrides", "abstractFunctions",
                      "abstractConstructors", "fallback", "stateVariables", "events", "modifiers",
                      "functions", "externalClashes", "hashCollisions", "library", "return">>
           At(i) == pc = order[i] /\ (pc' = order[i + 1] \/ (pc' = "unwinding" /\ thrown' /\ ~thrown))
       IN  /\ VisitDefinedStructs => At(1)
           /\ VisitBaseContracts => At(2)
           /\ CheckContractDuplicateFunctions => At(3) /\ ~thrown'
           /\ CheckContractIllegalOverrides => At(4) /\ ~thrown'
           /\ CheckContractAbstractFunctions => At(5) /\ ~thrown'
           /\ CheckContractAbstractConstructors => At(6) /\ ~thrown'
           /\ CheckConstructorAndFallback => At(7) /\ ~thrown'
           /\ VisitStateVariables => At(8)
           /\ VisitEvents => At(9)
           /\ VisitFunctionModifiers => At(10)
           /\ VisitDefinedFunctions => At(11)
           /\ CheckContractExternalTypeClashes => At(12) /\ ~thrown'
           /\ CheckHashCollisions => At(13) /\ ~thrown'
           /\ CheckLibraryRequirements => At(14) /\ ~thrown'
           /\ (pc # pc' /\ \E i \in 1..14 : pc = order[i]) =>
                 \/ \E i \in 1..14 : pc = order[i] /\ pc' = order[i + 1]
                 \/ pc' = "unwinding"
           /\ (pc # pc' /\ pc' = "structs") => pc = "resolveNamesAndTypes"
           /\ (pc # pc' /\ pc' = "returned") => pc = "return"]_vars

\* the end of the visit reached without a FatalError, with an error recorded on the way
C16_Witness ==
    /\ pc = "return"
    /\ ~thrown
    /\ m_errors # <<>>

(***************************************************************************)
(* Types.cpp: the type objects and their implicit conversions              *)
(***************************************************************************)
\* Greatest width the constructor of IntegerType admits
MaxBits == 256
\* The width the constructor means an address to have
AddressBits == 160

Modifiers == {"SIGNED", "UNSIGNED", "HASH", "ADDRESS"}

\* The elementary type tokens from Token::INT to Token::HASH256, in the order of the enum
IntegerTokens ==
    <<"INT", "INT32", "INT64", "INT128", "INT256",
      "UINT", "UINT32", "UINT64", "UINT128", "UINT256",
      "HASH", "HASH32", "HASH64", "HASH128", "HASH256">>

ElementaryTypeTokens == SeqRange(IntegerTokens) \cup {"ADDRESS", "BOOL"}

\* 1 << n
ShiftLeftOne(n) == 2 ^ n

\* The condition of the constructor's BOOST_ASSERT
IntegerTypeAssertion(_bits) == _bits > 0 /\ _bits <= MaxBits /\ _bits % 8 = 0

\* The widths that satisfy the assertion
Widths == {b \in 1..MaxBits : IntegerTypeAssertion(b)}

isAddress(t) == t.m_modifier = "ADDRESS"
isHash(t) == t.m_modifier = "HASH"
isSigned(t) == t.m_modifier = "SIGNED"

\* IntegerType::IntegerType. m_bits is initialised from the argument; the body then
\* assigns AddressBits to its parameter _bits, which no member reads afterwards.
IntegerType(_bits, _modifier) ==
    LET m_bits == _bits
        bits == IF _modifier = "ADDRESS" THEN AddressBits ELSE _bits
    IN  [category |-> "INTEGER", m_bits |-> m_bits, m_modifier |-> _modifier]

BoolType == [category |-> "BOOL"]

ContractType(_contract) == [category |-> "CONTRACT", m_contract |-> _contract]

\* The arguments Type::fromElementaryTypeName hands to the constructor of IntegerType
\* (bits 0 stands for BoolType, which has no width)
elementaryTypeArguments(_typeToken) ==
    IF _typeToken \in SeqRange(IntegerTokens)
    THEN LET offset == (CHOOSE i \in 1..Len(IntegerTokens) : IntegerTokens[i] = _typeToken) - 1
             rem == offset % 5
             bits == IF rem = 0 THEN MaxBits ELSE ShiftLeftOne(rem - 1) * 32
             modifier == offset \div 5
         IN  [category |-> "INTEGER", bits |-> bits,
              modifier |-> IF modifier = 0 THEN "SIGNED"
                           ELSE IF modifier = 1 THEN "UNSIGNED" ELSE "HASH"]
    ELSE IF _typeToken = "ADDRESS"
    THEN [category |-> "INTEGER", bits |-> 0, modifier |-> "ADDRESS"]
    ELSE [category |-> "BOOL", bits |-> 0, modifier |-> "UNSIGNED"]

\* IntegerType::isImplicitlyConvertibleTo with the unsigned branch comparing widths with >=
IntegerConvertibleSignedAtEqualWidth(from, _convertTo) ==
    IF _convertTo.category # "INTEGER" THEN FALSE
    ELSE IF _convertTo.m_bits < from.m_bits THEN FALSE
    ELSE IF isAddress(from) THEN isAddress(_convertTo)
    ELSE IF isHash(from) THEN isHash(_convertTo)
    ELSE IF isSigned(from) THEN isSigned(_convertTo)
    ELSE ~isSigned(_convertTo) \/ _convertTo.m_bits >= from.m_bits

\* IntegerType::isImplicitlyConvertibleTo
IntegerIsImplicitlyConvertibleTo(from, _convertTo) ==
    IF _convertTo.category # "INTEGER" THEN FALSE
    ELSE IF _convertTo.m_bits < from.m_bits THEN FALSE
    ELSE IF isAddress(from) THEN isAddress(_convertTo)
    ELSE IF isHash(from) THEN isHash(_convertTo)
    ELSE IF isSigned(from) THEN isSigned(_convertTo)
    ELSE ~isSigned(_convertTo) \/ _convertTo.m_bits > from.m_bits

\* ContractType::isImplicitlyConvertibleTo
ContractIsImplicitlyConvertibleTo(from, _convertTo) ==
    IF _convertTo.category # "CONTRACT" THEN FALSE
    ELSE from.m_contract = _convertTo.m_contract

\* Type::isImplicitlyConvertibleTo, the default of the classes that do not override it
TypeIsImplicitlyConvertibleTo(from, _convertTo) == from = _convertTo

\* The virtual call from.isImplicitlyConvertibleTo(_convertTo)
isImplicitlyConvertibleTo(from, _convertTo) ==
    IF from.category = "INTEGER" THEN IntegerIsImplicitlyConvertibleTo(from, _convertTo)
    ELSE IF from.category = "CONTRACT" THEN ContractIsImplicitlyConvertibleTo(from, _convertTo)
    ELSE TypeIsImplicitlyConvertibleTo(from, _convertTo)

\* Type::fromElementaryTypeName(_typeToken): the object is constructed; where the
\* constructor's assertion fails, a build with assertions stops there and a build
\* without them goes on with the object as initialised.
FromElementaryTypeName(_typeToken) ==
    /\ ~aborted
    /\ Len(constructed) < 2
    /\ _typeToken \in ElementaryTypeTokens
    /\ LET a == elementaryTypeArguments(_typeToken)
       IN  IF a.category = "BOOL"
           THEN /\ constructed' = Append(constructed, BoolType)
                /\ UNCHANGED aborted
           ELSE IF IntegerTypeAssertion(a.bits)
           THEN /\ constructed' = Append(constructed, IntegerType(a.bits, a.modifier))
                /\ UNCHANGED aborted
           ELSE \/ /\ aborted' = TRUE
                   /\ UNCHANGED constructed
                \/ /\ constructed' = Append(constructed, IntegerType(a.bits, a.modifier))
                   /\ UNCHANGED aborted
    /\ UNCHANGED <<convertible, returnStatement, mergeVars, gasVars, transferVars, stepVars, identifierVars, structVars, invocationVars, expressionVars, coreVars, resolverVars, registrarVars, checkerVars,
                   m_errors, m_scopes, m_currentScope>>

\* make_shared<IntegerType>(_bits, _modifier) with a width the assertion admits
ConstructIntegerType(_bits, _modifier) ==
    /\ ~aborted
    /\ Len(constructed) < 2
    /\ _bits \in Widths
    /\ _modifier \in Modifiers
    /\ constructed' = Append(constructed, IntegerType(_bits, _modifier))
    /\ UNCHANGED <<convertible, aborted, returnStatement, mergeVars, gasVars, transferVars, stepVars, identifierVars, structVars, invocationVars, expressionVars, coreVars, resolverVars, registrarVars,
                   checkerVars, m_errors, m_scopes, m_currentScope>>

\* make_shared<ContractType>(*contract)
ConstructContractType(_contract) ==
    /\ ~aborted
    /\ Len(constructed) < 2
    /\ _contract \in Contracts
    /\ constructed' = Append(constructed, ContractType(_contract))
    /\ UNCHANGED <<convertible, aborted, returnStatement, mergeVars, gasVars, transferVars, stepVars, identifierVars, structVars, invocationVars, expressionVars, coreVars, resolverVars, registrarVars,
                   checkerVars, m_errors, m_scopes, m_currentScope>>

\* constructed[1]->isImplicitlyConvertibleTo(*constructed[2])
IsImplicitlyConvertibleTo ==
    /\ ~aborted
    /\ Len(constructed) = 2
    /\ convertible = "none"
    /\ convertible' = IF isImplicitlyConvertibleTo(constructed[1], constructed[2])
                      THEN "true" ELSE "false"
    /\ UNCHANGED <<constructed, aborted, returnStatement, mergeVars, gasVars, transferVars, stepVars, identifierVars, structVars, invocationVars, expressionVars, coreVars, resolverVars, registrarVars,
                   checkerVars, m_errors, m_scopes, m_currentScope>>

\* The inheritance specifiers of single-inheritance chains: contract c derives from
\* c - 1 or from nothing.
ChainSpecifiers(derives) ==
    [c \in Contracts |-> IF c > 1 /\ c \in derives THEN <<c - 1>> ELSE <<>>]

\* What resolveNamesAndTypes leaves behind when it has returned true for the contracts
\* c..NumContracts in turn, starting from the annotations and scopes in s.
RECURSIVE ResolvedUnit(_, _, _)
ResolvedUnit(specifiers, c, s) ==
    IF c > NumContracts THEN s
    ELSE LET lr == linearizeBaseContracts(c, specifiers[c], s.linearizedBaseContracts)
             properBases == Tail(lr.result)
             calls == ImportCalls(properBases, s.m_scopes)
         IN  ResolvedUnit(specifiers, c + 1,
                [linearizedBaseContracts |->
                     [s.linearizedBaseContracts EXCEPT ![c] = lr.result],
                 contractDependencies |->
                     [s.contractDependencies EXCEPT ![c] = @ \cup SeqRange(properBases)],
                 m_scopes |-> [s.m_scopes EXCEPT ![c] = ApplyImports(@, calls)],
                 imported |-> [s.imported EXCEPT ![c] = calls]])

InitTypes ==
    /\ IdleCore
    /\ IdleExpression
    /\ IdleInvocation
    /\ IdleStruct
    /\ IdleIdentifier
    /\ IdleSteps
    /\ IdleTransfer
    /\ IdleGas
    /\ IdleMerge
    /\ IdleRegistrar
    /\ IdleChecker
    /\ IdleTypes
    /\ \E derives \in SUBSET (Contracts \ {1}) :
          /\ baseContracts = ChainSpecifiers(derives)
          /\ LET s == ResolvedUnit(baseContracts, 1,
                         [linearizedBaseContracts |-> [c \in Contracts |-> <<>>],
                          contractDependencies |-> [c \in Contracts |-> {}],
                          m_scopes |-> RegisteredScopes,
                          imported |-> [c \in Contracts |-> <<>>]])
             IN  /\ linearizedBaseContracts = s.linearizedBaseContracts
                 /\ contractDependencies = s.contractDependencies
                 /\ m_scopes = s.m_scopes
                 /\ imported = s.imported
    /\ nextContract = NumContracts + 1
    /\ returned = [c \in Contracts |-> "true"]
    /\ m_errors = <<>>
    /\ m_currentScope = ScopeAt(NumContracts, 0)

NextTypes ==
    \/ \E t \in ElementaryTypeTokens : FromElementaryTypeName(t)
    \/ \E b \in Widths, m \in Modifiers : ConstructIntegerType(b, m)
    \/ \E c \in Contracts : ConstructContractType(c)
    \/ IsImplicitlyConvertibleTo

SpecTypes == InitTypes /\ [][NextTypes]_vars

(***************************************************************************)
(* Properties of the implicit conversions of Types.cpp                     *)
(***************************************************************************)
\* isImplicitlyConvertibleTo has answered for two integer types of the widths 8, 16, ..., 256
IntegerPairConverted ==
    /\ convertible # "none"
    /\ constructed[1].category = "INTEGER"
    /\ constructed[2].category = "INTEGER"
    /\ constructed[1].m_bits \in Widths
    /\ constructed[2].m_bits \in Widths

\* C18 as stated: for every pair of integer types, the conversion is never to a narrower
\* type; within the same kind widening is allowed; a signed type converts to an unsigned
\* type exactly when the target is strictly wider; a hash type converts to a hash type
\* only of equal width; an address converts only to address and no non-address integer
\* converts to address.
C18_StatedLattice ==
    IntegerPairConverted =>
        LET from == constructed[1]
            to == constructed[2]
            yes == convertible = "true"
        IN  /\ yes => to.m_bits >= from.m_bits
            /\ (from.m_modifier = to.m_modifier /\ ~isHash(from) /\ to.m_bits >= from.m_bits)
                  => yes
            /\ (isSigned(from) /\ to.m_modifier = "UNSIGNED") => (yes <=> to.m_bits > from.m_bits)
            /\ (isHash(from) /\ isHash(to)) => (yes <=> to.m_bits = from.m_bits)
            /\ (isAddress(from) /\ yes) => isAddress(to)
            /\ (isAddress(to) /\ ~isAddress(from)) => ~yes

\* C18, amended: for every pair of integer types, the conversion is never to a narrower
\* type; within the same kind (hash included) every type of at least the same width is
\* a target; a signed type converts to no unsigned type, and an unsigned type converts
\* to a signed type exactly when the target is strictly wider; a hash type converts to
\* hash types only; an address converts only to address; of the non-address types
\* exactly the unsigned ones convert to address, to every address type of at least
\* their width.
C18_CodeLattice ==
    IntegerPairConverted =>
        LET from == constructed[1]
            to == constructed[2]
            yes == convertible = "true"
        IN  /\ yes => to.m_bits >= from.m_bits
            /\ (from.m_modifier = to.m_modifier /\ to.m_bits >= from.m_bits) => yes
            /\ (isSigned(from) /\ to.m_modifier = "UNSIGNED") => ~yes
            /\ (from.m_modifier = "UNSIGNED" /\ isSigned(to))
                  => (yes <=> to.m_bits > from.m_bits)
            /\ (isHash(from) /\ yes) => isHash(to)
            /\ (isAddress(from) /\ yes) => isAddress(to)
            /\ (isAddress(to) /\ ~isAddress(from))
                  => (yes <=> (from.m_modifier = "UNSIGNED" /\ to.m_bits >= from.m_bits))

\* A hash type was converted to a wider hash type, and the answer was yes
C18_Witness ==
    /\ IntegerPairConverted
    /\ isHash(constructed[1])
    /\ isHash(constructed[2])
    /\ constructed[2].m_bits > constructed[1].m_bits
    /\ convertible = "true"

\* C19: a contract type is implicitly convertible to the contract type of each contract
\* of its own linearization (itself and all its bases) and to address, and to no other
\* contract type.
C19_ConvertibleToBasesAndAddress ==
    (convertible # "none" /\ constructed[1].category = "CONTRACT") =>
        LET from == constructed[1]
            to == constructed[2]
            yes == convertible = "true"
        IN  /\ to.category = "CONTRACT"
                  => (yes <=> to.m_contract \in SeqRange(linearizedBaseContracts[from.m_contract]))
            /\ (to.category = "INTEGER" /\ isAddress(to)) => yes

\* C20: every IntegerType that is constructed satisfies the constructor's assertion
\* (width > 0, width <= 256, width a multiple of 8), and every address type has a stored
\* width of 160 bits, the address type made by fromElementaryTypeName included.
C20_IntegerTypesWellFormed ==
    /\ ~aborted
    /\ \A i \in 1..Len(constructed) :
          constructed[i].category = "INTEGER" =>
              /\ IntegerTypeAssertion(constructed[i].m_bits)
              /\ isAddress(constructed[i]) => constructed[i].m_bits = AddressBits

(***************************************************************************)
(* TypeChecker::endVisit(Return) and Return::checkTypeRequirements         *)
(***************************************************************************)
MaxReturnParameters == 2

\* The types of the expressions and return parameters of the statements checked
ReturnTypes ==
    {IntegerType(MaxBits, "UNSIGNED"), IntegerType(32, "UNSIGNED"),
     IntegerType(MaxBits, "SIGNED"), BoolType}

\* Type::toString
toString(t) ==
    IF t.category = "BOOL" THEN "bool"
    ELSE (IF isSigned(t) THEN "int" ELSE "uint") \o (IF t.m_bits = 32 THEN "32" ELSE "256")

\* TypeChecker::endVisit(Return) with the number of return parameters tested first
ReturnDiagnosticsCountFirst(errors, _return) ==
    IF _return.hasReturnParameters /\ Len(_return.parameters) # Len(_return.expression)
    THEN typeError(errors, <<0>>,
            "Different number of arguments in return statement than in returns declaration.")
    ELSE IF _return.expression = <<>> THEN errors
    ELSE IF ~_return.hasReturnParameters
    THEN typeError(errors, <<0>>, "Return arguments not allowed.")
    ELSE IF ~isImplicitlyConvertibleTo(_return.expression[1], _return.parameters[1])
    THEN typeError(errors, <<7>>,
            "Return argument type " \o toString(_return.expression[1]) \o
            " is not implicitly convertible to expected type (type of first return variable) "
            \o toString(_return.parameters[1]) \o ".")
    ELSE errors

\* TypeChecker::endVisit(Return): m_errors after the visit. In "return <expression>;"
\* the statement is at <<0>> and its expression at <<7>>.
ReturnDiagnostics(errors, _return) ==
    IF _return.expression = <<>> THEN errors
    ELSE IF ~_return.hasReturnParameters
    THEN typeError(errors, <<0>>, "Return arguments not allowed.")
    ELSE IF Len(_return.parameters) # 1
    THEN typeError(errors, <<0>>,
            "Different number of arguments in return statement than in returns declaration.")
    ELSE IF ~isImplicitlyConvertibleTo(_return.expression[1], _return.parameters[1])
    THEN typeError(errors, <<7>>,
            "Return argument type " \o toString(_return.expression[1]) \o
            " is not implicitly convertible to expected type (type of first return variable) "
            \o toString(_return.parameters[1]) \o ".")
    ELSE errors

\* Return::checkTypeRequirements: whether it throws a TypeError
ReturnThrows(_return) ==
    IF _return.expression = <<>> THEN FALSE
    ELSE IF ~_return.hasReturnParameters THEN TRUE
    ELSE IF Len(_return.parameters) # 1 THEN TRUE
    ELSE ~isImplicitlyConvertibleTo(_return.expression[1], _return.parameters[1])

\* TypeChecker::endVisit(Return)
EndVisitReturn ==
    /\ pc = "Return"
    /\ pc' = "visited"
    /\ m_errors' = ReturnDiagnostics(m_errors, returnStatement)
    /\ UNCHANGED <<checked, thrown, success, typeVars, mergeVars, gasVars, transferVars, stepVars, identifierVars, structVars, invocationVars, expressionVars, coreVars, resolverVars, registrarVars,
                   m_scopes, m_currentScope>>

\* Return::checkTypeRequirements
ReturnCheckTypeRequirements ==
    /\ pc = "Return"
    /\ pc' = "checked"
    /\ thrown' = ReturnThrows(returnStatement)
    /\ UNCHANGED <<checked, success, typeVars, mergeVars, gasVars, transferVars, stepVars, identifierVars, structVars, invocationVars, expressionVars, coreVars, resolverVars, registrarVars,
                   m_errors, m_scopes, m_currentScope>>

InitReturn ==
    /\ IdleCore
    /\ IdleExpression
    /\ IdleInvocation
    /\ IdleStruct
    /\ IdleIdentifier
    /\ IdleSteps
    /\ IdleTransfer
    /\ IdleGas
    /\ IdleMerge
    /\ IdleResolver
    /\ IdleRegistrar
    /\ constructed = <<>>
    /\ convertible = "none"
    /\ aborted = FALSE
    /\ \E hasExpression \in BOOLEAN, hasReturnParameters \in BOOLEAN,
          n \in 0..MaxReturnParameters, e \in ReturnTypes :
          \E parameters \in [1..n -> ReturnTypes] :
              /\ hasReturnParameters \/ n = 0
              /\ returnStatement = [expression |-> IF hasExpression THEN <<e>> ELSE <<>>,
                                    hasReturnParameters |-> hasReturnParameters,
                                    parameters |-> parameters]
    /\ checked = [name |-> "", definedFunctions |-> <<>>]
    /\ pc = "Return"
    /\ thrown = FALSE
    /\ success = "none"
    /\ m_errors \in PriorErrors
    /\ m_scopes = RegisteredScopes
    /\ m_currentScope = NoContract

NextReturn ==
    \/ EndVisitReturn
    \/ ReturnCheckTypeRequirements

SpecReturn == InitReturn /\ [][NextReturn]_vars

\* The Return node has an expression, the function one return parameter, and the type
\* of the expression converts to the parameter's
ReturnsOneConvertible(_return) ==
    /\ _return.expression # <<>>
    /\ _return.hasReturnParameters
    /\ Len(_return.parameters) = 1
    /\ isImplicitlyConvertibleTo(_return.expression[1], _return.parameters[1])

\* The check of the Return node ends in this step without a diagnostic / with a TypeError
ReturnPasses == m_errors' = m_errors /\ ~thrown'
ReturnTypeError ==
    \/ thrown' /\ m_errors' = m_errors
    \/ /\ Len(m_errors') = Len(m_errors) + 1
       /\ SubSeq(m_errors', 1, Len(m_errors)) = m_errors
       /\ m_errors'[Len(m_errors')].type = "TypeError"
       /\ ~thrown'

\* C17 as stated: a return statement passes without any diagnostic only if it has no
\* expression and the function declares no return parameters, or it has an expression,
\* the function declares exactly one return parameter and the expression's type is
\* implicitly convertible to it; in every other case a TypeError is recorded.
C17_PassesOnlyInTwoCases ==
    [][(pc = "Return" /\ pc' # "Return") =>
          IF \/ returnStatement.expression = <<>> /\ returnStatement.parameters = <<>>
             \/ ReturnsOneConvertible(returnStatement)
          THEN ReturnPasses
          ELSE ReturnTypeError]_vars

\* C17, amended: a return statement passes without any diagnostic only if it has no
\* expression (whatever the function declares), or it has an expression, the function
\* declares exactly one return parameter and the expression's type is implicitly
\* convertible to it; in every other case a TypeError is recorded.
C17_PassesWithoutExpressionOrConvertible ==
    [][(pc = "Return" /\ pc' # "Return") =>
          IF returnStatement.expression = <<>> \/ ReturnsOneConvertible(returnStatement)
          THEN ReturnPasses
          ELSE ReturnTypeError]_vars

\* A return without expression in a function that declares return parameters was
\* visited and nothing was recorded
C17_Witness ==
    /\ pc = "visited"
    /\ returnStatement.expression = <<>>
    /\ returnStatement.parameters # <<>>
    /\ m_errors \in PriorErrors

(***************************************************************************)
(* NameAndTypeResolver::cThreeMerge, one loop iteration at a time          *)
(***************************************************************************)
MaxLists == 2
MaxMergeElements == 4

\* number of elements in the lists from the i-th on / in all the lists
RECURSIVE SumLengths(_, _)
SumLengths(lists, i) ==
    IF i > Len(lists) THEN 0 ELSE Len(lists[i]) + SumLengths(lists, i + 1)

TotalLength(lists) == SumLengths(lists, 1)

\* the contracts that occur in the lists
Occurring(lists) == UNION {SeqRange(lists[i]) : i \in 1..Len(lists)}

\* _toMerge.remove_if(empty)
MergeRemoveEmpty ==
    /\ mergePc = "start"
    /\ _toMerge' = RemoveEmptyLists(_toMerge)
    /\ mergePc' = "loop"
    /\ UNCHANGED <<mergeInput, mergeResult, typeVars, gasVars, transferVars, stepVars, identifierVars, structVars, invocationVars, expressionVars, coreVars, resolverVars, registrarVars, checkerVars,
                   m_errors, m_scopes, m_currentScope>>

\* one iteration of while (!_toMerge.empty()): the candidate is appended and removed from
\* all lists, or the empty vector is returned when there is none
MergeIteration ==
    /\ mergePc = "loop"
    /\ _toMerge # <<>>
    /\ LET candidate == nextCandidate(_toMerge)
       IN  IF candidate = NoContract
           THEN /\ mergeResult' = <<>>
                /\ mergePc' = "failed"
                /\ UNCHANGED _toMerge
           ELSE /\ mergeResult' = Append(mergeResult, candidate)
                /\ _toMerge' = removeCandidate(candidate, _toMerge)
                /\ UNCHANGED mergePc
    /\ UNCHANGED <<mergeInput, typeVars, gasVars, transferVars, stepVars, identifierVars, structVars, invocationVars, expressionVars, coreVars, resolverVars, registrarVars, checkerVars,
                   m_errors, m_scopes, m_currentScope>>

\* the loop ends and result is returned
MergeReturn ==
    /\ mergePc = "loop"
    /\ _toMerge = <<>>
    /\ mergePc' = "returned"
    /\ UNCHANGED <<mergeInput, _toMerge, mergeResult, typeVars, gasVars, transferVars, stepVars, identifierVars, structVars, invocationVars, expressionVars, coreVars, resolverVars, registrarVars,
                   checkerVars, m_errors, m_scopes, m_currentScope>>

InitMerge ==
    /\ IdleCore
    /\ IdleExpression
    /\ IdleInvocation
    /\ IdleStruct
    /\ IdleIdentifier
    /\ IdleSteps
    /\ IdleTransfer
    /\ IdleGas
    /\ IdleResolver
    /\ IdleRegistrar
    /\ IdleChecker
    /\ IdleTypes
    /\ m_errors = <<>>
    /\ m_scopes = RegisteredScopes
    /\ m_currentScope = NoContract
    /\ \E n \in 0..MaxMergeElements, k \in 0..MaxLists :
          \E flat \in [1..n -> Contracts], owner \in [1..n -> 1..k] :
              /\ \A i \in 1..n, j \in 1..n : i <= j => owner[i] <= owner[j]
              /\ mergeInput =
                    [l \in 1..k |->
                        LET mine == {i \in 1..n : owner[i] = l}
                        IN  [j \in 1..Cardinality(mine) |-> flat[Min(mine) + j - 1]]]
    /\ _toMerge = mergeInput
    /\ mergeResult = <<>>
    /\ mergePc = "start"

NextMerge ==
    \/ MergeRemoveEmpty
    \/ MergeIteration
    \/ MergeReturn

SpecMerge == InitMerge /\ [][NextMerge]_vars

\* the function runs on: a call that has started is not suspended for ever
SpecMergeLive == SpecMerge /\ WF_vars(NextMerge)

\* how often contract c is in the sequence
Occurrences(s, c) == Cardinality({i \in 1..Len(s) : s[i] = c})

\* C29: cThreeMerge terminates on every finite list of finite lists, each loop iteration
\* removing one contract from all lists; when it succeeds, its result contains each
\* contract of the input lists exactly once (and nothing else); an empty result is
\* returned only for an input without elements or on failure.
C29_MergeTerminatesWithEachOnce ==
    /\ <>(mergePc \in {"returned", "failed"})
    /\ [][(mergePc = "loop" /\ mergePc' = "loop" /\ _toMerge' # _toMerge) =>
             /\ TotalLength(_toMerge') < TotalLength(_toMerge)
             /\ mergeResult'[Len(mergeResult')] \notin Occurring(_toMerge')
             /\ mergeResult'[Len(mergeResult')] \in Occurring(_toMerge)]_vars
    /\ [](mergePc = "returned" =>
             /\ \A c \in Contracts :
                   Occurrences(mergeResult, c) = IF c \in Occurring(mergeInput) THEN 1 ELSE 0
             /\ mergeResult = <<>> => Occurring(mergeInput) = {})
    /\ [](mergePc \in {"returned", "failed"} => mergeResult = cThreeMerge(mergeInput))

\* A merge of two lists with a common contract has succeeded
C29_Witness ==
    /\ mergePc = "returned"
    /\ Len(mergeInput) = 2
    /\ SeqRange(mergeInput[1]) \cap SeqRange(mergeInput[2]) # {}
    /\ Len(mergeResult) >= 2

(***************************************************************************)
(* GasMeter::GasConsumption::operator+=                                    *)
(***************************************************************************)
\* Width of u256 in the model: the arithmetic is that of the code, on GasBits bits
GasBits == 4

\* numeric_limits<u256>::max()
MaxU256 == 2 ^ GasBits - 1

\* u256(v): the conversion of a bigint keeps the low bits
u256(v) == v % (2 ^ GasBits)

GasConsumption(value, isInfinite) == [value |-> value, isInfinite |-> isInfinite]

\* GasConsumption::infinite()
infinite == GasConsumption(0, TRUE)

\* operator+= without the comparison with the greatest u256
PlusAssignWrapping(this, _other) ==
    LET first == IF _other.isInfinite /\ ~this.isInfinite THEN infinite ELSE this
    IN  IF first.isInfinite THEN first
        ELSE LET v == first.value + _other.value
             IN  GasConsumption(u256(v), first.isInfinite)

\* operator+=: *this after the call
PlusAssign(this, _other) ==
    LET first == IF _other.isInfinite /\ ~this.isInfinite THEN infinite ELSE this
    IN  IF first.isInfinite THEN first
        ELSE LET v == first.value + _other.value
             IN  IF v > MaxU256 THEN infinite
                 ELSE GasConsumption(u256(v), first.isInfinite)

\* gas += _other
GasPlusAssign(_other) ==
    /\ gasOther' = _other
    /\ gas' = PlusAssign(gas, _other)
    /\ UNCHANGED <<mergeVars, typeVars, transferVars, stepVars, identifierVars, structVars, invocationVars, expressionVars, coreVars, resolverVars, registrarVars, checkerVars,
                   m_errors, m_scopes, m_currentScope>>

\* the values a GasConsumption can have
GasConsumptions == {GasConsumption(v, i) : v \in 0..MaxU256, i \in BOOLEAN}

InitGas ==
    /\ IdleCore
    /\ IdleExpression
    /\ IdleInvocation
    /\ IdleStruct
    /\ IdleIdentifier
    /\ IdleSteps
    /\ IdleTransfer
    /\ IdleResolver
    /\ IdleRegistrar
    /\ IdleChecker
    /\ IdleTypes
    /\ IdleMerge
    /\ m_errors = <<>>
    /\ m_scopes = RegisteredScopes
    /\ m_currentScope = NoContract
    /\ gas = GasConsumption(0, FALSE)
    /\ gasOther = GasConsumption(0, FALSE)

NextGas == \E _other \in GasConsumptions : GasPlusAssign(_other)

SpecGas == InitGas /\ [][NextGas]_vars

\* C30: operator+= is saturating addition with an absorbing infinite value: the result
\* is infinite if and only if either operand is infinite or the exact sum exceeds the
\* greatest unsigned value, otherwise its value is the exact sum (no wrap-around);
\* once infinite, the accumulated gas stays infinite.
C30_SaturatingAddition ==
    [][LET exact == gas.value + gasOther'.value
       IN  /\ gas'.isInfinite <=> (gas.isInfinite \/ gasOther'.isInfinite \/ exact > MaxU256)
           /\ ~gas'.isInfinite => gas'.value = exact
           /\ gas.isInfinite => gas'.isInfinite]_vars

\* Two finite amounts have been added up to exactly the greatest value, which is kept
C30_Witness ==
    /\ ~gas.isInfinite
    /\ gas.value = MaxU256
    /\ ~gasOther.isInfinite
    /\ gasOther.value > 0

(***************************************************************************)
(* smtCheckerTests/types/address_transfer.sol: C.f in the balance model    *)
(* that gives the test's two expected warnings                             *)
(***************************************************************************)
\* Width of the balances in the model
BalanceBits == 10

Addresses == {"this", "a1", "a2"}

\* the balances the accounts hold when f is called
InitialBalances == {0, 100, 600, 1000}

\* a.transfer(600) crediting a also when a is the contract itself
TransferCreditsAlways(b, from, to, value) ==
    [x \in DOMAIN b |->
        IF x = to THEN (b[x] + value) % (2 ^ BalanceBits)
        ELSE IF x = from THEN (b[x] - value) % (2 ^ BalanceBits)
        ELSE b[x]]

\* the balances after a transfer of value from one account to another: nothing moves
\* when both are the same account
TransferBalances(b, from, to, value) ==
    IF from = to THEN b
    ELSE [x \in DOMAIN b |->
             IF x = from THEN (b[x] - value) % (2 ^ BalanceBits)
             ELSE IF x = to THEN (b[x] + value) % (2 ^ BalanceBits)
             ELSE b[x]]

\* uint x = 100; require(x == a.balance);
FRequire ==
    /\ fpc = "require"
    /\ fpc' = IF balances[f_a] = 100 THEN "transfer" ELSE "reverted"
    /\ UNCHANGED <<balances, f_a, warnings, gasVars, mergeVars, typeVars, stepVars, identifierVars, structVars, invocationVars, expressionVars, coreVars, resolverVars,
                   registrarVars, checkerVars, m_errors, m_scopes, m_currentScope>>

\* a.transfer(600); with the expected warning 1236 (insufficient funds) where the
\* contract holds less than it sends
FTransfer ==
    /\ fpc = "transfer"
    /\ warnings' = IF balances["this"] < 600 THEN warnings \cup {"1236"} ELSE warnings
    /\ balances' = TransferBalances(balances, "this", f_a, 600)
    /\ fpc' = "assert"
    /\ UNCHANGED <<f_a, gasVars, mergeVars, typeVars, stepVars, identifierVars, structVars, invocationVars, expressionVars, coreVars, resolverVars, registrarVars,
                   checkerVars, m_errors, m_scopes, m_currentScope>>

\* assert(a.balance == 700); with the expected warning 4661 (assertion violation)
FAssert ==
    /\ fpc = "assert"
    /\ warnings' = IF balances[f_a] = 700 THEN warnings ELSE warnings \cup {"4661"}
    /\ fpc' = "done"
    /\ UNCHANGED <<balances, f_a, gasVars, mergeVars, typeVars, stepVars, identifierVars, structVars, invocationVars, expressionVars, coreVars, resolverVars,
                   registrarVars, checkerVars, m_errors, m_scopes, m_currentScope>>

InitTransfer ==
    /\ IdleCore
    /\ IdleExpression
    /\ IdleInvocation
    /\ IdleStruct
    /\ IdleIdentifier
    /\ IdleSteps
    /\ IdleResolver
    /\ IdleRegistrar
    /\ IdleChecker
    /\ IdleTypes
    /\ IdleMerge
    /\ IdleGas
    /\ m_errors = <<>>
    /\ m_scopes = RegisteredScopes
    /\ m_currentScope = NoContract
    /\ balances \in [Addresses -> InitialBalances]
    /\ f_a \in Addresses
    /\ fpc = "require"
    /\ warnings = {}

NextTransfer ==
    \/ FRequire
    \/ FTransfer
    \/ FAssert

SpecTransfer == InitTransfer /\ [][NextTransfer]_vars

C21_ScopeRestored ==
    [][nextContract' # nextContract => m_currentScope' = m_currentScope]_vars

(***************************************************************************)
(* NameAndTypeResolver::resolveNamesAndTypes, statement by statement       *)
(***************************************************************************)
MaxPerKind == 1

\* resolveNamesAndTypes with the body of each modifier resolved right after its signature
ResolveStepsBodiesEarly ==
    <<"baseContracts", "linearize", "import",
      "definedStructs", "definedEnums", "stateVariables", "events",
      "modifierSignatures", "modifierBodies", "functionSignatures", "functionBodies">>

\* The loops of the try block in the order of the code: the ReferencesResolver of each
\* inheritance specifier, linearizeBaseContracts, importInheritedScope of each proper
\* base, the ReferencesResolver of each struct, enum, state variable and event, of each
\* modifier and function without the code, and of each modifier and function with it
ResolveSteps ==
    <<"baseContracts", "linearize", "import",
      "definedStructs", "definedEnums", "stateVariables", "events",
      "modifierSignatures", "functionSignatures", "modifierBodies", "functionBodies">>

StepNames == SeqRange(ResolveSteps)

\* importInheritedScope raises no FatalError; a ReferencesResolver and
\* linearizeBaseContracts can
CanThrowFatalError(step) == step # "import"

\* one element of the loop reached is visited: it goes through or raises FatalError
ResolveItem ==
    /\ resolveReturned = "none"
    /\ resolveStep \in 1..Len(ResolveSteps)
    /\ resolveIndex <= resolving[ResolveSteps[resolveStep]]
    /\ \E ok \in BOOLEAN :
          /\ ~ok => CanThrowFatalError(ResolveSteps[resolveStep])
          /\ resolveLog' = Append(resolveLog, [step |-> ResolveSteps[resolveStep],
                                               item |-> resolveIndex, ok |-> ok])
          /\ resolveReturned' = IF ok THEN "none" ELSE "catch"
    /\ resolveIndex' = resolveIndex + 1
    /\ UNCHANGED <<resolving, resolveStep, transferVars, gasVars, mergeVars, typeVars,
                   identifierVars, structVars, invocationVars, expressionVars, coreVars, resolverVars, registrarVars, checkerVars, m_errors, m_scopes,
                   m_currentScope>>

\* the loop reached has visited all its elements: on to the next statement
ResolveNextLoop ==
    /\ resolveReturned = "none"
    /\ resolveStep \in 1..Len(ResolveSteps)
    /\ resolveIndex > resolving[ResolveSteps[resolveStep]]
    /\ resolveStep' = resolveStep + 1
    /\ resolveIndex' = 1
    /\ UNCHANGED <<resolving, resolveLog, resolveReturned, transferVars, gasVars, mergeVars,
                   typeVars, identifierVars, structVars, invocationVars, expressionVars, coreVars, resolverVars, registrarVars, checkerVars, m_errors, m_scopes,
                   m_currentScope>>

\* catch (FatalError const&) { return false; }
ResolveCatch ==
    /\ resolveReturned = "catch"
    /\ resolveReturned' = "false"
    /\ UNCHANGED <<resolving, resolveStep, resolveIndex, resolveLog, transferVars, gasVars,
                   mergeVars, typeVars, identifierVars, structVars, invocationVars, expressionVars, coreVars, resolverVars, registrarVars, checkerVars, m_errors,
                   m_scopes, m_currentScope>>

\* return true;
ResolveReturnTrue ==
    /\ resolveReturned = "none"
    /\ resolveStep = Len(ResolveSteps) + 1
    /\ resolveReturned' = "true"
    /\ UNCHANGED <<resolving, resolveStep, resolveIndex, resolveLog, transferVars, gasVars,
                   mergeVars, typeVars, identifierVars, structVars, invocationVars, expressionVars, coreVars, resolverVars, registrarVars, checkerVars, m_errors,
                   m_scopes, m_currentScope>>

InitSteps ==
    /\ IdleCore
    /\ IdleExpression
    /\ IdleInvocation
    /\ IdleStruct
    /\ IdleIdentifier
    /\ IdleResolver
    /\ IdleRegistrar
    /\ IdleChecker
    /\ IdleTypes
    /\ IdleMerge
    /\ IdleGas
    /\ IdleTransfer
    /\ m_errors = <<>>
    /\ m_scopes = RegisteredScopes
    /\ m_currentScope = NoContract
    /\ resolving \in [StepNames -> 0..MaxPerKind]
    /\ resolving["linearize"] = 1
    /\ resolving["modifierBodies"] = resolving["modifierSignatures"]
    /\ resolving["functionBodies"] = resolving["functionSignatures"]
    /\ resolving["baseContracts"] = 0 => resolving["import"] = 0
    /\ resolveStep = 1
    /\ resolveIndex = 1
    /\ resolveLog = <<>>
    /\ resolveReturned = "none"

NextSteps ==
    \/ ResolveItem
    \/ ResolveNextLoop
    \/ ResolveCatch
    \/ ResolveReturnTrue

SpecSteps == InitSteps /\ [][NextSteps]_vars

\* The steps as the claim groups them
PhaseOf(step) ==
    CASE step = "baseContracts" -> 1
      [] step = "linearize" -> 2
      [] step = "import" -> 3
      [] step \in {"definedStructs", "definedEnums", "stateVariables", "events"} -> 4
      [] step \in {"modifierSignatures", "functionSignatures"} -> 5
      [] step \in {"modifierBodies", "functionBodies"} -> 6

LoggedOf(step) == {i \in 1..Len(resolveLog) : resolveLog[i].step = step}

\* C26: within one resolveNamesAndTypes(C) base names are resolved first, then C is
\* linearized, then the scopes of the proper bases are imported, then structs, enums,
\* state variables and events are resolved, then the signatures of all modifiers and
\* functions, and only after every signature the body of any modifier or function; a
\* FatalError in a step prevents every later step; a call that returns true has taken
\* every step.
C26_StepsInOrder ==
    /\ \A i \in 1..Len(resolveLog), j \in 1..Len(resolveLog) :
          i < j => /\ PhaseOf(resolveLog[i].step) <= PhaseOf(resolveLog[j].step)
                   /\ resolveLog[i].ok
    /\ \A i \in 1..Len(resolveLog) :
          /\ PhaseOf(resolveLog[i].step) > 2 => LoggedOf("linearize") # {}
          /\ PhaseOf(resolveLog[i].step) = 6 =>
                Cardinality(LoggedOf("modifierSignatures") \cup LoggedOf("functionSignatures"))
                   = resolving["modifierSignatures"] + resolving["functionSignatures"]
    /\ resolveReturned = "false" => ~resolveLog[Len(resolveLog)].ok
    /\ resolveReturned = "true" =>
          \A s \in StepNames :
             /\ Cardinality(LoggedOf(s)) = resolving[s]
             /\ \A i \in LoggedOf(s) : resolveLog[i].ok

\* A contract with a modifier and a function was resolved up to the first body
C26_Witness ==
    /\ resolving["modifierSignatures"] = 1
    /\ resolving["functionSignatures"] = 1
    /\ LoggedOf("modifierBodies") # {}
    /\ LoggedOf("functionBodies") = {}

(***************************************************************************)
(* TypeChecker::visit(Identifier) and Identifier::overloadResolution       *)
(***************************************************************************)
MaxCandidates == 2

\* nullptr for a Declaration const*
NoDeclaration == [kind |-> "none", parameterTypes |-> <<>>, typeKnown |-> FALSE]

\* The parameter lists of the functions an identifier can name, and the lists of
\* argument types the call around it can record
ParameterTypeLists ==
    {<<>>, <<IntegerType(MaxBits, "UNSIGNED")>>, <<IntegerType(MaxBits, "SIGNED")>>, <<BoolType>>}
ArgumentTypeLists ==
    {<<>>, <<IntegerType(32, "UNSIGNED")>>, <<IntegerType(MaxBits, "UNSIGNED")>>, <<BoolType>>}

\* A FunctionDefinition; a variable, whose type is not known while its declaration has
\* not been visited
FunctionDeclaration(parameterTypes) ==
    [kind |-> "function", parameterTypes |-> parameterTypes, typeKnown |-> TRUE]
VariableDeclaration(typeKnown) ==
    [kind |-> "variable", parameterTypes |-> <<>>, typeKnown |-> typeKnown]

\* FunctionType::canTakeArguments: as many arguments as parameters, each implicitly
\* convertible to its parameter's type
canTakeArguments(parameterTypes, argumentTypes) ==
    /\ Len(parameterTypes) = Len(argumentTypes)
    /\ \A i \in 1..Len(parameterTypes) :
          isImplicitlyConvertibleTo(argumentTypes[i], parameterTypes[i])

\* the candidates of the loop: the overloaded declarations that are functions and can
\* take the arguments
MatchingCandidates(overloadedDeclarations, argumentTypes) ==
    SelectSeq(overloadedDeclarations,
              LAMBDA d : d.kind = "function" /\ canTakeArguments(d.parameterTypes, argumentTypes))

\* The overload resolution with the test of the arguments also for a single candidate
ResolveOverloadAlwaysTested(a) ==
    IF ~a.argumentTypes.present
    THEN [fatal |-> TRUE, msg |-> "Unable to determine overloaded type."]
    ELSE IF a.overloadedDeclarations = <<>>
    THEN [fatal |-> TRUE, msg |-> "No candidates for overload resolution found."]
    ELSE LET candidates == MatchingCandidates(a.overloadedDeclarations, a.argumentTypes.types)
         IN  IF candidates = <<>>
             THEN [fatal |-> TRUE,
                   msg |-> "No matching declaration found after argument-dependent lookup."]
             ELSE IF Len(candidates) = 1
             THEN [fatal |-> FALSE, referencedDeclaration |-> candidates[1]]
             ELSE [fatal |-> TRUE,
                   msg |-> "No unique declaration found after argument-dependent lookup."]

\* The block of visit(Identifier) for an annotation without referencedDeclaration: the
\* declaration assigned, or the fatalTypeError raised
ResolveOverload(a) ==
    IF ~a.argumentTypes.present
    THEN [fatal |-> TRUE, msg |-> "Unable to determine overloaded type."]
    ELSE IF a.overloadedDeclarations = <<>>
    THEN [fatal |-> TRUE, msg |-> "No candidates for overload resolution found."]
    ELSE IF Len(a.overloadedDeclarations) = 1
    THEN [fatal |-> FALSE, referencedDeclaration |-> a.overloadedDeclarations[1]]
    ELSE LET candidates == MatchingCandidates(a.overloadedDeclarations, a.argumentTypes.types)
         IN  IF candidates = <<>>
             THEN [fatal |-> TRUE,
                   msg |-> "No matching declaration found after argument-dependent lookup."]
             ELSE IF Len(candidates) = 1
             THEN [fatal |-> FALSE, referencedDeclaration |-> candidates[1]]
             ELSE [fatal |-> TRUE,
                   msg |-> "No unique declaration found after argument-dependent lookup."]

\* TypeChecker::visit(Identifier)
VisitIdentifier ==
    /\ idPc = "visit"
    /\ LET r == IF annotation.referencedDeclaration = NoDeclaration
                THEN ResolveOverload(annotation)
                ELSE [fatal |-> FALSE, referencedDeclaration |-> annotation.referencedDeclaration]
       IN  IF r.fatal
           THEN /\ m_errors' = fatalTypeError(m_errors, <<0>>, r.msg)
                /\ thrown' = TRUE
                /\ idPc' = "thrown"
                /\ UNCHANGED annotation
           ELSE IF ~r.referencedDeclaration.typeKnown
           THEN /\ m_errors' = fatalTypeError(m_errors, <<0>>,
                                  "Declaration referenced before type could be determined.")
                /\ thrown' = TRUE
                /\ idPc' = "thrown"
                /\ annotation' = [annotation EXCEPT
                                     !.referencedDeclaration = r.referencedDeclaration,
                                     !.isLValue = r.referencedDeclaration.kind = "variable"]
           ELSE /\ annotation' = [annotation EXCEPT
                                     !.referencedDeclaration = r.referencedDeclaration,
                                     !.isLValue = r.referencedDeclaration.kind = "variable",
                                     !.type = r.referencedDeclaration.kind]
                /\ idPc' = "returned"
                /\ UNCHANGED <<m_errors, thrown>>
    /\ UNCHANGED <<checked, pc, success, stepVars, transferVars, gasVars, mergeVars, typeVars,
                   structVars, invocationVars, expressionVars, coreVars, resolverVars, registrarVars, m_scopes, m_currentScope>>

InitIdentifier ==
    /\ IdleCore
    /\ IdleExpression
    /\ IdleInvocation
    /\ IdleStruct
    /\ IdleResolver
    /\ IdleRegistrar
    /\ IdleChecker
    /\ IdleTypes
    /\ IdleMerge
    /\ IdleGas
    /\ IdleTransfer
    /\ IdleSteps
    /\ m_errors \in PriorErrors
    /\ m_scopes = RegisteredScopes
    /\ m_currentScope = NoContract
    /\ idPc = "visit"
    /\ \E n \in 0..MaxCandidates, present \in BOOLEAN, types \in ArgumentTypeLists,
          bound \in {NoDeclaration, VariableDeclaration(TRUE), VariableDeclaration(FALSE),
                     FunctionDeclaration(<<>>)} :
          \E parameters \in [1..n -> ParameterTypeLists] :
              /\ \A i \in 1..n, j \in 1..n : i # j => parameters[i] # parameters[j]
              /\ bound # NoDeclaration => n = 0
              /\ ~present => types = <<>>
              /\ annotation =
                    [referencedDeclaration |-> bound,
                     overloadedDeclarations |-> [i \in 1..n |-> FunctionDeclaration(parameters[i])],
                     argumentTypes |-> [present |-> present, types |-> types],
                     isLValue |-> FALSE,
                     type |-> "null"]

NextIdentifier == VisitIdentifier

SpecIdentifier == InitIdentifier /\ [][NextIdentifier]_vars

\* the overloaded declarations that can take the recorded argument types
Accepting == MatchingCandidates(annotation.overloadedDeclarations, annotation.argumentTypes.types)

\* the visit ends with a fatal TypeError and the identifier unbound
FatalAndUnbound ==
    /\ idPc' = "thrown"
    /\ thrown'
    /\ Len(m_errors') = Len(m_errors) + 1
    /\ m_errors'[Len(m_errors')].type = "TypeError"
    /\ annotation'.referencedDeclaration = NoDeclaration

\* C23 as stated: when visit(Identifier) returns normally for an identifier that was not
\* pre-bound, it is bound to exactly one of its overloadedDeclarations, and that one can
\* take the recorded argument types; if no candidate or more than one accepts them, or
\* no argument types were recorded, a fatal TypeError is raised and it stays unbound.
C23_BoundToTheOneAccepting ==
    [][(idPc = "visit" /\ annotation.referencedDeclaration = NoDeclaration) =>
          IF annotation.argumentTypes.present /\ Len(Accepting) = 1
          THEN idPc' = "returned" /\ annotation'.referencedDeclaration = Accepting[1]
          ELSE FatalAndUnbound]_vars

\* C23, amended: a single overloaded declaration is bound without the test of the
\* arguments; of several, the one that can take the recorded argument types is bound;
\* if there is no overloaded declaration, or of several none or more than one accepts
\* the arguments, or no argument types were recorded, a fatal TypeError is raised and
\* the identifier stays unbound.
C23_BoundToSingleOrTheOneAccepting ==
    [][(idPc = "visit" /\ annotation.referencedDeclaration = NoDeclaration) =>
          IF annotation.argumentTypes.present /\ Len(annotation.overloadedDeclarations) = 1
          THEN /\ idPc' = "returned"
               /\ annotation'.referencedDeclaration = annotation.overloadedDeclarations[1]
          ELSE IF annotation.argumentTypes.present /\ Len(Accepting) = 1
          THEN idPc' = "returned" /\ annotation'.referencedDeclaration = Accepting[1]
          ELSE FatalAndUnbound]_vars

\* An identifier with one overloaded declaration that can not take the recorded
\* arguments was bound to it
C23_Witness ==
    /\ idPc = "returned"
    /\ Len(annotation.overloadedDeclarations) = 1
    /\ annotation.referencedDeclaration = annotation.overloadedDeclarations[1]
    /\ Accepting = <<>>

(***************************************************************************)
(* TypeChecker::visit(StructDefinition): the recursion check               *)
(***************************************************************************)
NumStructs == 2

StructDefinitions == 1..NumStructs

\* Type::Category of a member that refers to a struct: the struct itself, a mapping to
\* it or an array of it ("none": the struct has no member referring to that struct).
\* The definitions checked refer to themselves through an array (S[] children) and to
\* another struct through a mapping where they do not hold it by value.
MemberCategories == {"none", "Struct", "Mapping", "Array"}

\* The structs that members of _struct refer to, whatever the category
AnyCategoryMembers(members, _struct) ==
    {t \in StructDefinitions : members[_struct][t] # "none"}

\* _struct->members() filtered by category() == Type::Category::Struct: the structs
\* that members of _struct hold by value
ByValueMembers(members, _struct) ==
    {t \in StructDefinitions : members[_struct][t] = "Struct"}

\* One activation of check(_struct, _parents): next is the member the loop is at
CheckFrame(_struct, _parents) == [node |-> _struct, parents |-> _parents, next |-> 0]

\* check: if (_parents.count(_struct)) fatalTypeError(*_struct, ...)
StructCheckCall ==
    /\ structPc = "check"
    /\ LET top == structStack[Len(structStack)]
       IN  /\ top.next = 0
           /\ IF top.node \in top.parents
              THEN /\ m_errors' = fatalTypeError(m_errors, <<top.node>>,
                                                 "Recursive struct definition.")
                   /\ thrown' = TRUE
                   /\ structPc' = "thrown"
                   /\ UNCHANGED structStack
              ELSE /\ structStack' = [structStack EXCEPT ![Len(structStack)].next = 1]
                   /\ UNCHANGED <<m_errors, thrown, structPc>>
    /\ UNCHANGED <<structMembers, visitedStruct, checked, pc, success, identifierVars,
                   stepVars, transferVars, gasVars, mergeVars, typeVars, invocationVars, expressionVars, coreVars, resolverVars,
                   registrarVars, m_scopes, m_currentScope>>

\* check: one iteration of the loop over _struct->members(), with the recursive call
\* for a member of category Struct
StructCheckMember ==
    /\ structPc = "check"
    /\ LET top == structStack[Len(structStack)]
       IN  /\ top.next \in StructDefinitions
           /\ structStack' =
                 LET advanced == [structStack EXCEPT ![Len(structStack)].next = top.next + 1]
                 IN  IF top.next \in ByValueMembers(structMembers, top.node)
                     THEN Append(advanced, CheckFrame(top.next, top.parents \cup {top.node}))
                     ELSE advanced
    /\ UNCHANGED <<structMembers, visitedStruct, structPc, m_errors, thrown, checked, pc,
                   success, identifierVars, stepVars, transferVars, gasVars, mergeVars,
                   typeVars, invocationVars, expressionVars, coreVars, resolverVars, registrarVars, m_scopes, m_currentScope>>

\* check: the loop is over and the activation returns; the outermost one returns to
\* visit(StructDefinition), which visits the members and returns false
StructCheckReturn ==
    /\ structPc = "check"
    /\ LET top == structStack[Len(structStack)]
       IN  /\ top.next = NumStructs + 1
           /\ structStack' = SubSeq(structStack, 1, Len(structStack) - 1)
           /\ structPc' = IF Len(structStack) = 1 THEN "returned" ELSE "check"
    /\ UNCHANGED <<structMembers, visitedStruct, m_errors, thrown, checked, pc, success,
                   identifierVars, stepVars, transferVars, gasVars, mergeVars, typeVars,
                   invocationVars, expressionVars, coreVars, resolverVars, registrarVars, m_scopes, m_currentScope>>

InitStruct ==
    /\ IdleCore
    /\ IdleExpression
    /\ IdleInvocation
    /\ IdleResolver
    /\ IdleRegistrar
    /\ IdleChecker
    /\ IdleTypes
    /\ IdleMerge
    /\ IdleGas
    /\ IdleTransfer
    /\ IdleSteps
    /\ IdleIdentifier
    /\ m_errors = <<>>
    /\ m_scopes = RegisteredScopes
    /\ m_currentScope = NoContract
    /\ \E refers \in [StructDefinitions -> [StructDefinitions -> {"none", "Struct", "indirect"}]] :
          structMembers = [s \in StructDefinitions |-> [t \in StructDefinitions |->
                              IF refers[s][t] # "indirect" THEN refers[s][t]
                              ELSE IF s = t THEN "Array" ELSE "Mapping"]]
    /\ visitedStruct \in StructDefinitions
    /\ structStack = <<CheckFrame(visitedStruct, {})>>
    /\ structPc = "check"

NextStruct ==
    \/ StructCheckCall
    \/ StructCheckMember
    \/ StructCheckReturn

SpecStruct == InitStruct /\ [][NextStruct]_vars

SpecStructLive == SpecStruct /\ WF_vars(NextStruct)

\* The structs reached from the set from by one or more members that edges follows
RECURSIVE ReachedFrom(_, _, _)
ReachedFrom(edges(_), from, n) ==
    IF n = 0
    THEN {}
    ELSE LET step == UNION {edges(s) : s \in from}
         IN  step \cup ReachedFrom(edges, step, n - 1)

ByValueEdges(s) == {t \in StructDefinitions : structMembers[s][t] = "Struct"}

\* Following by-value members from the visited struct comes back to a struct of the path
ReachesAncestorByValue ==
    \E s \in {visitedStruct} \cup ReachedFrom(ByValueEdges, {visitedStruct}, NumStructs) :
        s \in ReachedFrom(ByValueEdges, {s}, NumStructs)

AnyEdges(s) == {t \in StructDefinitions : structMembers[s][t] \in {"Mapping", "Array"} \cup {"Struct"}}

\* Some member of a struct reached from the visited one leads back, when mappings and
\* arrays are followed too
ReachesAncestorAtAll ==
    \E s \in {visitedStruct} \cup ReachedFrom(AnyEdges, {visitedStruct}, NumStructs) :
        s \in ReachedFrom(AnyEdges, {s}, NumStructs)

\* The activations are a path of by-value members from the visited struct, each with
\* the structs before it as its parents
StackIsByValuePath ==
    \A i \in 1..Len(structStack) :
        /\ structStack[i].parents = {structStack[j].node : j \in 1..(i - 1)}
        /\ i = 1 => structStack[i].node = visitedStruct
        /\ i > 1 => structStack[i].node \in ByValueEdges(structStack[i - 1].node)

\* C24: the recursion check ends, and it raises the fatal error 'Recursive struct
\* definition.' exactly if following by-value struct members from the visited struct
\* reaches a struct among the ancestors on the current path; members that are mappings
\* or arrays never trigger it.
C24_RecursionCheck ==
    /\ <>(structPc \in {"returned", "thrown"})
    /\ [](StackIsByValuePath)
    /\ [](structPc = "thrown" =>
             /\ ReachesAncestorByValue
             /\ structStack[Len(structStack)].node \in structStack[Len(structStack)].parents
             /\ m_errors = <<Error("TypeError", "Recursive struct definition.",
                                   <<structStack[Len(structStack)].node>>, NoLocation)>>)
    /\ [](structPc = "returned" => ~ReachesAncestorByValue /\ m_errors = <<>>)

\* A struct that is recursive only through a mapping or an array was checked and no
\* error was raised
C24_Witness ==
    /\ structPc = "returned"
    /\ ReachesAncestorAtAll
    /\ \E s \in StructDefinitions : structMembers[visitedStruct][s] = "Struct"

(***************************************************************************)
(* TypeChecker::endVisit(InheritanceSpecifier), TypeChecker::visitManually *)
(***************************************************************************)
MaxArguments == 2

\* The lists of argument types and of parameter types
ArgumentLists == UNION {[1..n -> ReturnTypes] : n \in 0..MaxArguments}
InvocationParameterLists ==
    UNION {[1..n -> {IntegerType(MaxBits, "UNSIGNED"), BoolType}] : n \in 0..MaxParameters}

\* vector<ASTPointer<VariableDeclaration>> const* parameters: nullptr, or the address of
\* a list of parameters
NullParameters == [isNull |-> TRUE, list |-> <<>>]
ParametersAt(list) == [isNull |-> FALSE, list |-> list]

\* The loop over the arguments, from argument i on: a typeError for each argument that
\* is not implicitly convertible to the parameter of its index
RECURSIVE ArgumentLoop(_, _, _, _, _)
ArgumentLoop(errors, argumentTypes, parameterTypes, i, what) ==
    IF i > Len(argumentTypes) THEN errors
    ELSE ArgumentLoop(
            IF isImplicitlyConvertibleTo(argumentTypes[i], parameterTypes[i]) THEN errors
            ELSE typeError(errors, <<i>>,
                    "Invalid type for argument in " \o what \o ". " \o
                    "Invalid implicit conversion from " \o toString(argumentTypes[i]) \o
                    " to " \o toString(parameterTypes[i]) \o " requested."),
            argumentTypes, parameterTypes, i + 1, what)

\* The message of the test of the number of arguments
WrongArgumentCount(what, given, expected) ==
    "Wrong argument count for " \o what \o ": " \o ToString(given) \o
    " arguments given but expected " \o ToString(expected) \o "."

\* What a read of parameterTypes[i] yields for each i: the parameter where it exists,
\* and any value where the vector has no such element
ParameterReads(argumentTypes, parameterTypes) ==
    {parameterTypes \o beyond :
        beyond \in [1..(Len(argumentTypes) - Len(parameterTypes)) -> ReturnTypes]}

\* endVisit(InheritanceSpecifier) after the test for a library: the errors it can leave
\* and whether it read a parameter that does not exist
InheritanceOutcomes(errors, argumentTypes, parameterTypes) ==
    LET counted == IF argumentTypes # <<>> /\ Len(parameterTypes) # Len(argumentTypes)
                   THEN typeError(errors, <<0>>,
                           WrongArgumentCount("constructor call", Len(argumentTypes),
                                              Len(parameterTypes)))
                   ELSE errors
        beyond == Len(argumentTypes) > Len(parameterTypes)
    IN  {[errors |-> ArgumentLoop(counted, argumentTypes, read, 1, "constructor call"),
          crashed |-> FALSE, outOfRange |-> beyond] :
            read \in ParameterReads(argumentTypes, parameterTypes)}
        \cup (IF beyond THEN {[errors |-> counted, crashed |-> TRUE, outOfRange |-> TRUE]}
              ELSE {})

\* visitManually from the test of the number of arguments on
ModifierOutcomes(errors, argumentTypes, parameterTypes) ==
    LET counted == IF Len(parameterTypes) # Len(argumentTypes)
                   THEN typeError(errors, <<0>>,
                           WrongArgumentCount("modifier invocation", Len(argumentTypes),
                                              Len(parameterTypes)))
                   ELSE errors
        beyond == Len(argumentTypes) > Len(parameterTypes)
    IN  {[errors |-> ArgumentLoop(counted, argumentTypes, read, 1, "modifier invocation"),
          crashed |-> FALSE, outOfRange |-> beyond] :
            read \in ParameterReads(argumentTypes, parameterTypes)}
        \cup (IF beyond THEN {[errors |-> counted, crashed |-> TRUE, outOfRange |-> TRUE]}
              ELSE {})

\* TypeChecker::endVisit(InheritanceSpecifier)
EndVisitInheritanceSpecifier ==
    /\ invPc = "visit"
    /\ invocation.node = "InheritanceSpecifier"
    /\ LET library == IF invocation.isLibrary
                      THEN typeError(m_errors, <<0>>, "Libraries cannot be inherited from.")
                      ELSE m_errors
       IN  \E o \in InheritanceOutcomes(library, invocation.arguments,
                                        invocation.parameterTypes) :
              /\ m_errors' = o.errors
              /\ invPc' = IF o.crashed THEN "crashed" ELSE "returned"
              /\ invAccess' = [nullDereferenced |-> FALSE, outOfRange |-> o.outOfRange]
    /\ UNCHANGED <<invocation, checkerVars, structVars, identifierVars, stepVars,
                   transferVars, gasVars, mergeVars, typeVars, expressionVars, coreVars, resolverVars, registrarVars,
                   m_scopes, m_currentScope>>

\* TypeChecker::visitManually(ModifierInvocation, _bases): parameters stays nullptr when
\* the declaration is neither a modifier nor one of the bases; the error is recorded
\* and parameters->size() is evaluated all the same
VisitManually ==
    /\ invPc = "visit"
    /\ invocation.node = "ModifierInvocation"
    /\ IF invocation.parameters = NullParameters
       THEN LET neither == typeError(m_errors, <<0>>,
                              "Referenced declaration is neither modifier nor base class.")
            IN  \/ /\ m_errors' = neither
                   /\ invPc' = "crashed"
                   /\ invAccess' = [nullDereferenced |-> TRUE, outOfRange |-> FALSE]
                \/ \E read \in InvocationParameterLists :
                   \E o \in ModifierOutcomes(neither, invocation.arguments, read) :
                      /\ m_errors' = o.errors
                      /\ invPc' = IF o.crashed THEN "crashed" ELSE "returned"
                      /\ invAccess' = [nullDereferenced |-> TRUE, outOfRange |-> o.outOfRange]
       ELSE \E o \in ModifierOutcomes(m_errors, invocation.arguments,
                                       invocation.parameters.list) :
               /\ m_errors' = o.errors
               /\ invPc' = IF o.crashed THEN "crashed" ELSE "returned"
               /\ invAccess' = [nullDereferenced |-> FALSE, outOfRange |-> o.outOfRange]
    /\ UNCHANGED <<invocation, checkerVars, structVars, identifierVars, stepVars,
                   transferVars, gasVars, mergeVars, typeVars, expressionVars, coreVars, resolverVars, registrarVars,
                   m_scopes, m_currentScope>>

InitInvocation ==
    /\ IdleCore
    /\ IdleExpression
    /\ IdleResolver
    /\ IdleRegistrar
    /\ IdleChecker
    /\ IdleTypes
    /\ IdleMerge
    /\ IdleGas
    /\ IdleTransfer
    /\ IdleSteps
    /\ IdleIdentifier
    /\ IdleStruct
    /\ m_errors = <<>>
    /\ m_scopes = RegisteredScopes
    /\ m_currentScope = NoContract
    /\ invPc = "visit"
    /\ invAccess = [nullDereferenced |-> FALSE, outOfRange |-> FALSE]
    /\ \E argumentTypes \in ArgumentLists :
          \/ \E parameterTypes \in InvocationParameterLists, isLibrary \in BOOLEAN :
                invocation = [node |-> "InheritanceSpecifier", arguments |-> argumentTypes,
                              isLibrary |-> isLibrary, parameterTypes |-> parameterTypes]
          \/ \E declared \in {ParametersAt(l) : l \in InvocationParameterLists}
                                \cup {NullParameters} :
                invocation = [node |-> "ModifierInvocation", arguments |-> argumentTypes,
                              parameters |-> declared]

NextInvocation ==
    \/ EndVisitInheritanceSpecifier
    \/ VisitManually

SpecInvocation == InitInvocation /\ [][NextInvocation]_vars

\* C28: in the check of base constructor calls and of modifier invocations no null
\* parameter list is dereferenced and no parameter is read at an index greater than or
\* equal to the number of parameters, also after a 'Wrong argument count' error or a
\* 'Referenced declaration is neither modifier nor base class.' error was recorded.
C28_ParametersExistWhenRead ==
    /\ ~invAccess.nullDereferenced
    /\ ~invAccess.outOfRange
    /\ invPc # "crashed"

(***************************************************************************)
(* TypeChecker: visits of expressions and TypeChecker::type                *)
(***************************************************************************)
\* A null TypePointer
NullType == [category |-> "NULL"]

IntegerConstantType == [category |-> "INTEGER_CONSTANT"]
ArrayType(baseType, isString) == [category |-> "ARRAY", baseType |-> baseType, isString |-> isString]
MappingType(keyType, valueType) ==
    [category |-> "MAPPING", keyType |-> keyType, valueType |-> valueType]
TypeType(actualType) == [category |-> "TYPE", actualType |-> actualType]

\* The types of the operands, and of the base expression of an index access
OperandTypes == {IntegerType(MaxBits, "UNSIGNED"), BoolType}
BaseTypes ==
    {ArrayType(t, s) : t \in OperandTypes, s \in BOOLEAN}
        \cup {MappingType(k, v) : k \in OperandTypes, v \in OperandTypes}
        \cup {TypeType(t) : t \in OperandTypes}
        \cup OperandTypes

\* The index expression of an index access: omitted, or visited with a type; a constant
\* can lie beyond the length of an array of fixed size
IndexExpressions ==
    {[present |-> FALSE, type |-> NullType, beyondLength |-> FALSE]}
        \cup {[present |-> TRUE, type |-> t, beyondLength |-> FALSE] :
                 t \in OperandTypes \cup {IntegerConstantType}}
        \cup {[present |-> TRUE, type |-> IntegerConstantType, beyondLength |-> TRUE]}

\* Type::toString for the messages
TypeName(t) ==
    IF t.category \in {"INTEGER", "BOOL"} THEN toString(t)
    ELSE IF t.category = "INTEGER_CONSTANT" THEN "int_const"
    ELSE IF t.category = "ARRAY" THEN toString(t.baseType) \o "[]"
    ELSE IF t.category = "MAPPING"
    THEN "mapping(" \o toString(t.keyType) \o " => " \o toString(t.valueType) \o ")"
    ELSE "type(" \o toString(t.actualType) \o ")"

\* TypeChecker::expectType after the visit of the expression
expectType(errors, loc, actual, expected) ==
    IF actual.category = "INTEGER_CONSTANT" /\ expected.category = "INTEGER" THEN errors
    ELSE IF actual.category # "INTEGER_CONSTANT" /\ isImplicitlyConvertibleTo(actual, expected)
    THEN errors
    ELSE typeError(errors, loc,
            "Type " \o TypeName(actual) \o " is not implicitly convertible to expected type " \o
            TypeName(expected) \o ".")

\* TypeChecker::visit(UnaryOperation); unaryOperatorResult yields null or a type
VisitUnaryOperation ==
    /\ exprPc = "visit"
    /\ visitedExpression.node = "UnaryOperation"
    /\ \E t \in {NullType, visitedExpression.subType} :
          LET required ==
                  IF visitedExpression.op \in {"++", "--", "delete"}
                        /\ ~visitedExpression.subIsLValue
                  THEN typeError(m_errors, <<1>>, "Expression has to be an lvalue.")
                  ELSE m_errors
          IN  /\ m_errors' =
                    IF t = NullType
                    THEN typeError(required, <<0>>,
                            "Unary operator " \o visitedExpression.op \o
                            " cannot be applied to type " \o
                            TypeName(visitedExpression.subType))
                    ELSE required
              /\ exprAnnotation' = [exprAnnotation EXCEPT
                                       !.type = IF t = NullType THEN visitedExpression.subType
                                                ELSE t]
    /\ exprPc' = "returned"
    /\ UNCHANGED <<visitedExpression, checkerVars, invocationVars, structVars, identifierVars,
                   stepVars, transferVars, gasVars, mergeVars, typeVars, coreVars, resolverVars,
                   registrarVars, m_scopes, m_currentScope>>

\* TypeChecker::endVisit(BinaryOperation); binaryOperatorResult yields null or a type
EndVisitBinaryOperation ==
    /\ exprPc = "visit"
    /\ visitedExpression.node = "BinaryOperation"
    /\ \E result \in {NullType, visitedExpression.leftType, visitedExpression.rightType} :
          LET commonType == IF result = NullType THEN visitedExpression.leftType ELSE result
          IN  /\ m_errors' =
                    IF result = NullType
                    THEN typeError(m_errors, <<0>>,
                            "Operator " \o visitedExpression.op \o
                            " not compatible with types " \o
                            TypeName(visitedExpression.leftType) \o " and " \o
                            TypeName(visitedExpression.rightType))
                    ELSE m_errors
              /\ exprAnnotation' = [exprAnnotation EXCEPT
                                       !.commonType = commonType,
                                       !.type = IF visitedExpression.op \in {"==", "<"}
                                                THEN BoolType ELSE commonType]
    /\ exprPc' = "returned"
    /\ UNCHANGED <<visitedExpression, checkerVars, invocationVars, structVars, identifierVars,
                   stepVars, transferVars, gasVars, mergeVars, typeVars, coreVars, resolverVars,
                   registrarVars, m_scopes, m_currentScope>>

\* TypeChecker::visit(IndexAccess): the errors recorded and resultType at the end of the
\* switch (fatal: the default case)
IndexAccessResult(errors, baseType, index) ==
    IF baseType.category = "ARRAY"
    THEN [fatal |-> FALSE, resultType |-> baseType.baseType,
          errors |->
             IF ~index.present
             THEN typeError(errors, <<0>>, "Index expression cannot be omitted.")
             ELSE IF baseType.isString
             THEN typeError(errors, <<0>>, "Index access for string is not possible.")
             ELSE LET expected == expectType(errors, <<2>>, index.type,
                                             IntegerType(MaxBits, "UNSIGNED"))
                  IN  IF index.beyondLength
                      THEN typeError(expected, <<0>>, "Out of bounds array access.")
                      ELSE expected]
    ELSE IF baseType.category = "MAPPING"
    THEN [fatal |-> FALSE, resultType |-> baseType.valueType,
          errors |->
             IF ~index.present
             THEN typeError(errors, <<0>>, "Index expression cannot be omitted.")
             ELSE expectType(errors, <<2>>, index.type, baseType.keyType)]
    ELSE IF baseType.category = "TYPE"
    THEN IF ~index.present
         THEN [fatal |-> FALSE, errors |-> errors,
               resultType |-> TypeType(ArrayType(baseType.actualType, FALSE))]
         ELSE IF index.type = IntegerConstantType
         THEN [fatal |-> FALSE, errors |-> errors,
               resultType |-> TypeType(ArrayType(baseType.actualType, FALSE))]
         ELSE [fatal |-> FALSE, resultType |-> NullType,
               errors |-> typeError(errors, <<2>>, "Integer constant expected.")]
    ELSE [fatal |-> TRUE, resultType |-> NullType,
          errors |-> fatalTypeError(errors, <<1>>,
                        "Indexed expression has to be a type, mapping or array (is " \o
                        TypeName(baseType) \o ")")]

\* TypeChecker::visit(IndexAccess)
VisitIndexAccess ==
    /\ exprPc = "visit"
    /\ visitedExpression.node = "IndexAccess"
    /\ LET r == IndexAccessResult(m_errors, visitedExpression.baseType, visitedExpression.index)
       IN  /\ m_errors' = r.errors
           /\ IF r.fatal
              THEN /\ thrown' = TRUE
                   /\ exprPc' = "thrown"
                   /\ UNCHANGED exprAnnotation
              ELSE /\ exprAnnotation' =
                         [exprAnnotation EXCEPT
                             !.type = r.resultType,
                             !.isLValue = visitedExpression.baseType.category
                                             \in {"ARRAY", "MAPPING"}]
                   /\ exprPc' = "returned"
                   /\ UNCHANGED thrown
    /\ UNCHANGED <<visitedExpression, checked, pc, success, invocationVars, structVars,
                   identifierVars, stepVars, transferVars, gasVars, mergeVars, typeVars,
                   coreVars, resolverVars, registrarVars, m_scopes, m_currentScope>>

\* TypeChecker::type(Expression): a later lookup of the type of the visited expression
TypeOfExpression ==
    /\ exprPc = "returned"
    /\ exprPc' = IF exprAnnotation.type = NullType THEN "assertion" ELSE "typed"
    /\ UNCHANGED <<visitedExpression, exprAnnotation, m_errors, checkerVars, invocationVars,
                   structVars, identifierVars, stepVars, transferVars, gasVars, mergeVars,
                   typeVars, coreVars, resolverVars, registrarVars, m_scopes, m_currentScope>>

InitExpression ==
    /\ IdleCore
    /\ IdleResolver
    /\ IdleRegistrar
    /\ IdleChecker
    /\ IdleTypes
    /\ IdleMerge
    /\ IdleGas
    /\ IdleTransfer
    /\ IdleSteps
    /\ IdleIdentifier
    /\ IdleStruct
    /\ IdleInvocation
    /\ m_errors = <<>>
    /\ m_scopes = RegisteredScopes
    /\ m_currentScope = NoContract
    /\ exprPc = "visit"
    /\ exprAnnotation = [type |-> NullType, commonType |-> NullType, isLValue |-> FALSE]
    /\ \/ \E op \in {"++", "!", "delete"}, subType \in OperandTypes, subIsLValue \in BOOLEAN :
             visitedExpression = [node |-> "UnaryOperation", op |-> op, subType |-> subType,
                                  subIsLValue |-> subIsLValue]
       \/ \E op \in {"+", "==", "&&"}, leftType \in OperandTypes, rightType \in OperandTypes :
             visitedExpression = [node |-> "BinaryOperation", op |-> op,
                                  leftType |-> leftType, rightType |-> rightType]
       \/ \E baseType \in BaseTypes, index \in IndexExpressions :
             visitedExpression = [node |-> "IndexAccess", baseType |-> baseType,
                                  index |-> index]

NextExpression ==
    \/ VisitUnaryOperation
    \/ EndVisitBinaryOperation
    \/ VisitIndexAccess
    \/ TypeOfExpression

SpecExpression == InitExpression /\ [][NextExpression]_vars

\* C27: whenever the visit of an expression node returns normally, the node's type
\* annotation is not null, also when a TypeError was recorded for it, so a later type()
\* lookup on it never fails the assertion 'Type requested but not present.'.
C27_VisitedExpressionHasType ==
    /\ exprPc = "returned" => exprAnnotation.type # NullType
    /\ exprPc # "assertion"

(***************************************************************************)
(* The core run on a source unit, and run a second time with the same      *)
(* resolver and error list                                                 *)
(***************************************************************************)
\* DeclarationRegistrationHelper over the source unit, from visit(ContractDefinition) of
\* its first contract: registerDeclaration records the conflict, if any, and
\* enterNewSubScope asserts that m_scopes.emplace added the scope of the contract. With
\* no scope there yet the declarations of the unit are registered one by one.
RegisterSourceUnit(scopes, errors) ==
    LET d == ContractDecl(1)
        conflicts == ConflictCandidates(scopes[NoContract], d)
        recorded == IF registerDeclarationOk(scopes[NoContract], d) THEN errors
                    ELSE Append(errors, AlreadyDeclaredError(d, CHOOSE x \in conflicts : TRUE))
    IN  IF d.id \in DOMAIN scopes
        THEN [newlyAdded |-> FALSE, errors |-> recorded, scopes |-> scopes]
        ELSE [newlyAdded |-> TRUE, errors |-> recorded, scopes |-> RegisteredScopes]

\* NameAndTypeResolver::registerDeclarations: the failed solAssert of enterNewSubScope
\* is no FatalError and leaves the function through its catch clause
CoreRegisterDeclarations ==
    /\ corePc = "registerDeclarations"
    /\ LET r == RegisterSourceUnit(m_scopes, m_errors)
       IN  /\ m_errors' = r.errors
           /\ m_scopes' = r.scopes
           /\ corePc' = IF r.newlyAdded THEN "resolveNamesAndTypes" ELSE "assertion"
    /\ nextContract' = 1
    /\ UNCHANGED <<coreRun, firstRun, m_currentScope, baseContracts, linearizedBaseContracts,
                   contractDependencies, returned, imported, registrarVars, checkerVars,
                   typeVars, mergeVars, gasVars, transferVars, stepVars, identifierVars,
                   structVars, invocationVars, expressionVars>>

\* the driver's call of resolveNamesAndTypes for the next contract of the unit
CoreResolveNamesAndTypes ==
    /\ corePc = "resolveNamesAndTypes"
    /\ \E c \in Contracts : ResolveNamesAndTypes(c)

\* TypeChecker::checkTypeRequirements for the contracts of the unit, whose members give
\* the visit nothing to record: its return value, and the end of the run
CoreCheckTypeRequirements ==
    /\ corePc = "resolveNamesAndTypes"
    /\ nextContract = NumContracts + 1
    /\ success' = IF OnlyWarnings(m_errors) THEN "true" ELSE "false"
    /\ corePc' = "done"
    /\ firstRun' = IF coreRun = 1
                   THEN [linearizedBaseContracts |-> linearizedBaseContracts,
                         contractDependencies |-> contractDependencies,
                         diagnostics |-> m_errors]
                   ELSE firstRun
    /\ UNCHANGED <<coreRun, checked, pc, thrown, m_errors, m_scopes, m_currentScope,
                   resolverVars, registrarVars, typeVars, mergeVars, gasVars, transferVars,
                   stepVars, identifierVars, structVars, invocationVars, expressionVars>>

\* The core is run a second time on the analysed AST
CoreRunAgain ==
    /\ corePc = "done"
    /\ coreRun = 1
    /\ coreRun' = 2
    /\ corePc' = "registerDeclarations"
    /\ UNCHANGED <<firstRun, checkerVars, m_errors, m_scopes, m_currentScope, resolverVars,
                   registrarVars, typeVars, mergeVars, gasVars, transferVars, stepVars,
                   identifierVars, structVars, invocationVars, expressionVars>>

\* A fresh resolver and error list, and a source unit in which a contract has no base or
\* one, named before it or itself
InitCore ==
    /\ IdleRegistrar
    /\ IdleChecker
    /\ IdleTypes
    /\ IdleMerge
    /\ IdleGas
    /\ IdleTransfer
    /\ IdleSteps
    /\ IdleIdentifier
    /\ IdleStruct
    /\ IdleInvocation
    /\ IdleExpression
    /\ \E base \in [Contracts -> Contracts \cup {NoContract}] :
          /\ \A c \in Contracts : base[c] <= c
          /\ baseContracts = [c \in Contracts |->
                                 IF base[c] = NoContract THEN <<>> ELSE <<base[c]>>]
    /\ linearizedBaseContracts = [c \in Contracts |-> <<>>]
    /\ contractDependencies = [c \in Contracts |-> {}]
    /\ nextContract = 1
    /\ returned = [c \in Contracts |-> "none"]
    /\ imported = [c \in Contracts |-> <<>>]
    /\ m_errors = <<>>
    /\ m_scopes = (NoContract :> Container(NoContract, <<>>, <<>>))
    /\ m_currentScope = NoContract
    /\ coreRun = 1
    /\ corePc = "registerDeclarations"
    /\ firstRun = <<>>

NextCore ==
    \/ CoreRegisterDeclarations
    \/ CoreResolveNamesAndTypes
    \/ CoreCheckTypeRequirements
    \/ CoreRunAgain

SpecCore == InitCore /\ [][NextCore]_vars

\* C22: the second run of the whole core on the analysed AST, with the same resolver
\* and error list, completes without assertion failure and leaves the annotations and
\* the diagnostics as they were after the first run.
C22_SecondRunLeavesAllAsItWas ==
    /\ corePc # "assertion"
    /\ coreRun = 2 =>
          /\ linearizedBaseContracts = firstRun.linearizedBaseContracts
          /\ contractDependencies = firstRun.contractDependencies
          /\ m_errors = firstRun.diagnostics

====
